---- MODULE Spec2Model ----
(***************************************************************************)
(* A model of run-simulations.js (the election forecast engine): the       *)
(* partisan-pair arithmetic and weighted combiner, the margin -> win       *)
(* probability function and its lookup table, and the Monte Carlo seat     *)
(* simulators with their seat histograms.                                  *)
(*                                                                         *)
(* Numbers.  A JavaScript number is modelled as a record                   *)
(*   [k |-> "fin", n |-> numerator, d |-> denominator]  (reduced, d > 0)   *)
(* or one of the three non-finite values NaN, +Infinity, -Infinity.        *)
(* Every arithmetic operation of the pair arithmetic is the exact          *)
(* rational result rounded to the nearest value with PREC significant      *)
(* bits, ties to even, which is what IEEE-754 prescribes; the engine runs  *)
(* with 53 bits, the model with PREC.  Negative zero is not distinguished  *)
(* from zero, and exponent overflow/underflow is not modelled.             *)
(***************************************************************************)
EXTENDS Integers, Sequences, FiniteSets, TLC

(* ------------------------------------------------------------------ *)
(* Bounds of the model                                                 *)
(* ------------------------------------------------------------------ *)

\* Significant bits of the floating-point format of the model.
PREC == 8

(* ------------------------------------------------------------------ *)
(* Integer helpers                                                     *)
(* ------------------------------------------------------------------ *)

Abs(x) == IF x < 0 THEN -x ELSE x

Sign(x) == IF x < 0 THEN -1 ELSE IF x > 0 THEN 1 ELSE 0

RECURSIVE GCD(_, _)
GCD(a, b) == IF b = 0 THEN a ELSE GCD(b, a % b)

RECURSIVE Pow2(_)
Pow2(e) == IF e <= 0 THEN 1 ELSE 2 * Pow2(e - 1)

Max2(a, b) == IF a >= b THEN a ELSE b

Min2(a, b) == IF a <= b THEN a ELSE b

(* ------------------------------------------------------------------ *)
(* JavaScript numbers                                                  *)
(* ------------------------------------------------------------------ *)

NaN == [k |-> "nan", n |-> 0, d |-> 1]

PosInf == [k |-> "pinf", n |-> 0, d |-> 1]

NegInf == [k |-> "ninf", n |-> 0, d |-> 1]

\* The rational n/d, reduced, as a finite number (d # 0).
Rat(n, d) ==
  LET g == GCD(Abs(n), Abs(d))
      s == IF d < 0 THEN -1 ELSE 1
  IN  [k |-> "fin", n |-> s * (n \div g), d |-> s * (d \div g)]

Num(i) == [k |-> "fin", n |-> i, d |-> 1]

isFinite(x) == x.k = "fin"

IsNaN(x) == x.k = "nan"

\* The sign of a number that is not NaN: -1, 0 or 1.
SignOf(x) ==
  IF x.k = "pinf" THEN 1 ELSE IF x.k = "ninf" THEN -1 ELSE Sign(x.n)

InfOfSign(s) == IF s > 0 THEN PosInf ELSE NegInf

\* x < y, x <= y on finite numbers (exact).
RLt(x, y) == x.n * y.d < y.n * x.d

RLe(x, y) == x.n * y.d <= y.n * x.d

\* The JavaScript comparisons: false as soon as an operand is NaN.
JLt(x, y) ==
  IF IsNaN(x) \/ IsNaN(y) THEN FALSE
  ELSE IF x.k = "fin" /\ y.k = "fin" THEN RLt(x, y)
  ELSE IF x.k = "fin" THEN y.k = "pinf"
  ELSE IF y.k = "fin" THEN x.k = "ninf"
  ELSE x.k = "ninf" /\ y.k = "pinf"

JLe(x, y) ==
  IF IsNaN(x) \/ IsNaN(y) THEN FALSE ELSE JLt(x, y) \/ x = y

\* The exponent e with 2^(PREC-1) <= a / (d * 2^e) < 2^PREC, for a, d > 0,
\* searched upward from e.
RECURSIVE ExpUp(_, _, _)
ExpUp(a, d, e) ==
  IF a >= d * Pow2(PREC) * Pow2(e) THEN ExpUp(a, d, e + 1) ELSE e

RECURSIVE ExpDown(_, _, _)
ExpDown(a, d, e) ==
  IF a * Pow2(-e) < d * Pow2(PREC - 1) THEN ExpDown(a, d, e - 1) ELSE e

\* The integer nearest to a / b (a >= 0, b > 0), ties to the even integer.
RoundHalfEven(a, b) ==
  LET q == a \div b
      r == a % b
  IN  IF 2 * r < b THEN q
      ELSE IF 2 * r > b THEN q + 1
      ELSE IF q % 2 = 0 THEN q ELSE q + 1

\* Rounding of the exact rational n/d (d > 0) to PREC significant bits.
Fl(n, d) ==
  IF n = 0 THEN Num(0)
  ELSE
    LET a == Abs(n)
        e == IF a >= d * Pow2(PREC) THEN ExpUp(a, d, 1) ELSE ExpDown(a, d, 0)
        m == IF e >= 0 THEN RoundHalfEven(a, d * Pow2(e))
             ELSE RoundHalfEven(a * Pow2(-e), d)
    IN  IF e >= 0 THEN Rat(Sign(n) * m * Pow2(e), 1)
        ELSE Rat(Sign(n) * m, Pow2(-e))

\* x + y
JAdd(x, y) ==
  IF IsNaN(x) \/ IsNaN(y) THEN NaN
  ELSE IF x.k = "fin" /\ y.k = "fin" THEN Fl(x.n * y.d + y.n * x.d, x.d * y.d)
  ELSE IF x.k = "fin" THEN y
  ELSE IF y.k = "fin" THEN x
  ELSE IF x.k = y.k THEN x ELSE NaN

\* -x
JNeg(x) ==
  IF IsNaN(x) THEN NaN
  ELSE IF x.k = "pinf" THEN NegInf
  ELSE IF x.k = "ninf" THEN PosInf
  ELSE [k |-> "fin", n |-> -x.n, d |-> x.d]

\* x - y
JSub(x, y) == JAdd(x, JNeg(y))

\* x * y
JMul(x, y) ==
  IF IsNaN(x) \/ IsNaN(y) THEN NaN
  ELSE IF x.k = "fin" /\ y.k = "fin" THEN Fl(x.n * y.n, x.d * y.d)
  ELSE IF SignOf(x) = 0 \/ SignOf(y) = 0 THEN NaN
  ELSE InfOfSign(SignOf(x) * SignOf(y))

\* x / y
JDiv(x, y) ==
  IF IsNaN(x) \/ IsNaN(y) THEN NaN
  ELSE IF x.k = "fin" /\ y.k = "fin" THEN
    IF y.n = 0 THEN (IF x.n = 0 THEN NaN ELSE InfOfSign(Sign(x.n)))
    ELSE Fl(Sign(y.n) * x.n * y.d, Abs(y.n) * x.d)
  ELSE IF x.k # "fin" /\ y.k # "fin" THEN NaN
  ELSE IF x.k = "fin" THEN Num(0)
  ELSE InfOfSign(SignOf(x) * (IF SignOf(y) < 0 THEN -1 ELSE 1))

(* ------------------------------------------------------------------ *)
(* Partisan pairs and the weighted combiner                            *)
(* ------------------------------------------------------------------ *)

\* A pair {D, R}; null is the JavaScript null a function returns for "no pair".
Pair(D, R) == [nul |-> FALSE, D |-> D, R |-> R]

null == [nul |-> TRUE, D |-> NaN, R |-> NaN]

Neutral == Pair(Num(50), Num(50))

\* normalizePair(D, R)
normalizePair(D, R) ==
  LET s == JAdd(D, R)
  IN  IF ~isFinite(s) \/ JLe(s, Num(0)) THEN Neutral
      ELSE Pair(JDiv(JMul(Num(100), D), s), JDiv(JMul(Num(100), R), s))

\* marginRD(pair)
marginRD(pair) == JSub(pair.R, pair.D)

\* computeGenericBallotState(gb, ratio)
computeGenericBallotState(gb, ratio) ==
  normalizePair(JMul(gb.D, ratio.D), JMul(gb.R, ratio.R))

\* computePollState(poll)
computePollState(poll) ==
  IF poll.nul THEN null
  ELSE IF ~isFinite(poll.D) \/ ~isFinite(poll.R)
          \/ JLe(JAdd(poll.D, poll.R), Num(0)) THEN null
  ELSE normalizePair(poll.D, poll.R)

\* computeIndicatorState(indNat, ratio)
computeIndicatorState(indNat, ratio) ==
  normalizePair(JMul(indNat.D, ratio.D), JMul(indNat.R, ratio.R))

\* One element of the components array of weightedCombine; nul is a null element.
Comp(pair, w) == [nul |-> FALSE, pair |-> pair, w |-> w]

\* The test of weightedCombine's loop that skips a component.
CompSkipped(c) ==
  c.nul \/ c.pair.nul \/ ~isFinite(c.w) \/ JLe(c.w, Num(0))

\* The accumulators {W, D, R} of weightedCombine after the first k components.
RECURSIVE CombineAcc(_, _)
CombineAcc(components, k) ==
  IF k = 0 THEN [W |-> Num(0), D |-> Num(0), R |-> Num(0)]
  ELSE
    LET acc == CombineAcc(components, k - 1)
        c == components[k]
    IN  IF CompSkipped(c) THEN acc
        ELSE [W |-> JAdd(acc.W, c.w),
              D |-> JAdd(acc.D, JMul(c.w, c.pair.D)),
              R |-> JAdd(acc.R, JMul(c.w, c.pair.R))]

\* weightedCombine with the defect the combiner must not have: a component
\* whose pair is absent is averaged in as 50/50 at its configured weight.
RECURSIVE DefaultingAcc(_, _)
DefaultingAcc(components, k) ==
  IF k = 0 THEN [W |-> Num(0), D |-> Num(0), R |-> Num(0)]
  ELSE
    LET acc == DefaultingAcc(components, k - 1)
        c == components[k]
        p == IF c.pair.nul THEN Neutral ELSE c.pair
    IN  IF c.nul \/ ~isFinite(c.w) \/ JLe(c.w, Num(0)) THEN acc
        ELSE [W |-> JAdd(acc.W, c.w),
              D |-> JAdd(acc.D, JMul(c.w, p.D)),
              R |-> JAdd(acc.R, JMul(c.w, p.R))]

weightedCombineDefaulting(components) ==
  LET acc == DefaultingAcc(components, Len(components))
  IN  IF JLe(acc.W, Num(0)) THEN Neutral
      ELSE normalizePair(JDiv(acc.D, acc.W), JDiv(acc.R, acc.W))

\* weightedCombine(components)
weightedCombine(components) ==
  LET acc == CombineAcc(components, Len(components))
  IN  IF JLe(acc.W, Num(0)) THEN Neutral
      ELSE normalizePair(JDiv(acc.D, acc.W), JDiv(acc.R, acc.W))

(* ------------------------------------------------------------------ *)
(* The probability model                                               *)
(*                                                                     *)
(* A probability, and every intermediate value of erf, is an integer   *)
(* count of units of 10^-9 (the erf coefficients have nine decimals,   *)
(* so they are exact); each product and quotient is rounded to the     *)
(* nearest unit.  Margins are numbers as above; the index arithmetic   *)
(* of the table lookup is exact.  The arithmetic is written so that no *)
(* intermediate value leaves 32 bits.                                  *)
(* ------------------------------------------------------------------ *)

Nano == 10^9

\* a / k rounded to the nearest integer (halves up), a >= 0, k > 0.
RoundDiv(a, k) == (a \div k) + (IF (a % k) >= k - (a % k) THEN 1 ELSE 0)

\* a * b / 10^9 rounded to the nearest integer (halves up), a, b >= 0,
\* by long multiplication in base 1000.
MulNano(a, b) ==
  LET a2 == a \div 10^6
      a1 == (a \div 1000) % 1000
      a0 == a % 1000
      b2 == b \div 10^6
      b1 == (b \div 1000) % 1000
      b0 == b % 1000
      s3 == a2 * b1 + a1 * b2
      s2 == a2 * b0 + a1 * b1 + a0 * b2
      s1 == a1 * b0 + a0 * b1
      s0 == a0 * b0
  IN  a2 * b2 * 1000 + s3
        + ((s2 + 500 + ((s1 + (s0 \div 1000)) \div 1000)) \div 1000)

\* The same for operands of either sign.
SMulNano(a, b) == Sign(a) * Sign(b) * MulNano(Abs(a), Abs(b))

\* One step of long division in base 10: <<q, r>> becomes
\* <<10 q + digit, remainder>> for the divisor c > r.  For a large c
\* the digit is estimated from c \div 10 and corrected, so that 10 r is
\* never formed.
DivStep(qr, c) ==
  LET r == qr[2]
      cq == c \div 10
      cr == c % 10
      e == Min2(9, r \div cq)
      v == 10 * (r - e * cq) - e * cr
  IN  IF c < 10^8 THEN <<10 * qr[1] + ((10 * r) \div c), (10 * r) % c>>
      ELSE IF v < 0 THEN <<10 * qr[1] + e - 1, v + c>>
      ELSE <<10 * qr[1] + e, v>>

\* n steps, each taken before the next is started.
RECURSIVE DivSteps(_, _, _)
DivSteps(qr, c, n) ==
  IF n = 0 \/ qr[2] < 0 THEN qr ELSE DivSteps(DivStep(qr, c), c, n - 1)

\* a * 10^n / c rounded to the nearest integer (halves up), a >= 0.
DivPow10(a, n, c) ==
  LET qr == DivSteps(<<a \div c, a % c>>, c, n)
  IN  qr[1] + (IF qr[2] >= c - qr[2] THEN 1 ELSE 0)

\* PROB_ERROR_SD_PTS
PROB_ERROR_SD_PTS == 7

\* The constants of erf: a1..a5 in units of 10^-9, p in units of 10^-7.
erf_a1 == 254829592

erf_a2 == -284496736

erf_a3 == 1421413741

erf_a4 == -1453152027

erf_a5 == 1061405429

erf_p == 3275911

\* Math.SQRT2 in units of 10^-8
SQRT2 == 141421356

\* The arguments z and x of normalCDF and erf are integers in units of
\* 4 * 10^-9, so that x / 4 is x units of 10^-9.
ArgUnit == 25 * 10^7

\* Math.exp(-w) for 0 <= w <= 2 (units of 10^-9): the series
\* 1 - w (1 - w/2 (1 - w/3 ( ... ))) cut after ExpTerms terms.
ExpTerms == 18

\* One term of the series: 1 - (w / k) * rest
ExpTerm(w, k, rest) == Nano - RoundDiv(MulNano(w, rest), k)

\* The series from the innermost term outwards: rest is the value of
\* the terms past k, which is never negative.
RECURSIVE ExpSeries(_, _, _)
ExpSeries(w, k, rest) ==
  IF k = 0 \/ rest < 0 THEN rest
  ELSE ExpSeries(w, k - 1, ExpTerm(w, k, rest))

Square(v) == MulNano(v, v)

\* v^(2^k) for 0 <= v <= 1 (units of 10^-9)
RECURSIVE SquareTimes(_, _)
SquareTimes(v, k) ==
  IF k = 0 \/ v < 0 THEN v ELSE SquareTimes(Square(v), k - 1)

\* Math.exp(-x * x), as exp(-(x/4)^2)^16.
ExpNegSquare(x) ==
  SquareTimes(ExpSeries(MulNano(x, x), ExpTerms, Nano), 4)

\* Past x = 4.5 the term that erf subtracts from 1 is below half a unit
\* of 10^-9.
ErfFlat == 9 * (ArgUnit \div 2)

\* erf(x)
erf(x) ==
  LET sign == IF x < 0 THEN -1 ELSE 1
      ax == Abs(x)
      \* 1 + p * x in units of 1/(4 * 10^8)
      u == 4 * 10^8 + MulNano(ax, 160 * erf_p)
      t == DivPow10(4 * 10^8, 9, u)
      h5 == SMulNano(erf_a5, t) + erf_a4
      h4 == SMulNano(h5, t) + erf_a3
      h3 == SMulNano(h4, t) + erf_a2
      h2 == SMulNano(h3, t) + erf_a1
      h1 == SMulNano(h2, t)
      y == Nano - SMulNano(h1, ExpNegSquare(ax))
  IN  IF ax > ErfFlat THEN sign * Nano ELSE sign * y

\* normalCDF(x): 0.5 * (1 + erf(x / Math.SQRT2))
normalCDF(x) ==
  LET e == erf(Sign(x) * DivPow10(Abs(x), 8, SQRT2))
  IN  RoundDiv(Nano + e, 2)

\* clamp(x, a, b)
clamp(x, a, b) == Max2(a, Min2(b, x))

\* The largest z that is represented: past it normalCDF is 0 or 1.
ZMax == 8 * ArgUnit

\* m / PROB_ERROR_SD_PTS for a finite margin m
zOfMargin(m) ==
  IF Abs(m.n) >= (ZMax \div ArgUnit) * PROB_ERROR_SD_PTS * m.d
  THEN Sign(m.n) * ZMax
  ELSE Sign(m.n) * DivPow10(Abs(m.n), 9, 4 * PROB_ERROR_SD_PTS * m.d)

\* winProbFromMargin(m) for a finite margin m
winProbFromMargin(m) ==
  LET pR == clamp(normalCDF(zOfMargin(m)), 0, Nano)
  IN  [pD |-> Nano - pR, pR |-> pR]

\* The store into a Float32Array of a value 0 <= v <= 1 (units of 10^-9):
\* the nearest number with 24 significant bits, to the nearest unit.
\* Below 2^-6 the 24 bits are finer than a unit.
F32Exp(v) ==
  IF 2 * v >= Nano THEN 0
  ELSE IF 4 * v >= Nano THEN 1
  ELSE IF 8 * v >= Nano THEN 2
  ELSE IF 16 * v >= Nano THEN 3
  ELSE IF 32 * v >= Nano THEN 4
  ELSE IF 64 * v >= Nano THEN 5
  ELSE 6

\* j * 10^9 / 2^(24+k) = j * 5^9 / 2^(15+k), rounded to the nearest
\* integer, for 0 <= j <= 2^24, by long multiplication in base 2^15.
F32Value(j, k) ==
  LET B == Pow2(15)
      j1 == j \div B
      j0 == j % B
      c1 == (5^9) \div B
      c0 == (5^9) % B
      m1 == j1 * c0 + j0 * c1
      m0 == j0 * c0
  IN  j1 * c1 * Pow2(15 - k)
        + ((m1 + ((m0 + Pow2(14 + k)) \div B)) \div Pow2(k))

Float32(v) ==
  IF v <= 0 \/ v >= Nano \/ F32Exp(v) >= 6 THEN v
  ELSE F32Value(MulNano(v, Pow2(24 + F32Exp(v))), F32Exp(v))

\* WINP_MIN, WINP_MAX, WINP_STEP, WINP_N
WINP_MIN == -40

WINP_MAX == 40

WINP_STEP == Rat(1, 10)

WINP_N == ((WINP_MAX - WINP_MIN) * WINP_STEP.d) \div WINP_STEP.n + 1

\* WINP_PD_TABLE, filled by the loop at start-up
WINP_PD_TABLE ==
  [i \in 0..(WINP_N - 1) |->
     Float32(winProbFromMargin(
       Rat(WINP_MIN * WINP_STEP.d + i * WINP_STEP.n, WINP_STEP.d)).pD)]

Half == Nano \div 2

\* A lookup that does not clamp the margin.
clampMarginAbsent(m) == m

\* clamp(m, WINP_MIN, WINP_MAX) on a finite number
clampMargin(m) ==
  IF RLt(m, Num(WINP_MIN)) THEN Num(WINP_MIN)
  ELSE IF RLt(Num(WINP_MAX), m) THEN Num(WINP_MAX)
  ELSE m

\* Math.round((mm - WINP_MIN) / WINP_STEP): floor(x + 1/2)
tableIndex(mm) ==
  (2 * WINP_STEP.d * (mm.n - WINP_MIN * mm.d) + WINP_STEP.n * mm.d)
    \div (2 * WINP_STEP.n * mm.d)

\* winProbD_fast(m)
winProbD_fast(m) ==
  IF ~isFinite(m) THEN Half
  ELSE
    LET idx == tableIndex(clampMargin(m))
    IN  IF idx \in 0..(WINP_N - 1) THEN WINP_PD_TABLE[idx] ELSE Half

(* ------------------------------------------------------------------ *)
(* Configuration                                                       *)
(* ------------------------------------------------------------------ *)

\* NUM_SIMS: 10000 in the configuration, bounded here.
NUM_SIMS == 2

HOUSE_MC_SWING_RANGE_PTS == 7

SENATE_MC_SWING_RANGE_PTS == 7

WEIGHTS == [gb |-> 35, polls |-> 50, ind |-> 15]

STATE_POLL_WINDOW == 6

SEAT_RULES ==
  [senate   |-> [total |-> 100, majorityLine |-> 51,  baseR |-> 31, baseD |-> 34],
   governor |-> [total |-> 50,  majorityLine |-> 26,  baseR |-> 8,  baseD |-> 6],
   house    |-> [total |-> 435, majorityLine |-> 218, baseR |-> 0,  baseD |-> 0]]

SENATE_CONTROL_RULE == [demAtLeast |-> 51, repAtLeast |-> 50]

\* The number of days of the generic-ballot series.
NumDays == 2

(* ------------------------------------------------------------------ *)
(* The seat model                                                      *)
(*                                                                     *)
(* DATA[modeKey] is a record: ratios and polls are sequences over the  *)
(* sorted ratio keys (key i is the i-th of Object.keys(ratios).sort()),*)
(* a missing poll is null; gb is a pair or null.  A Float32Array store *)
(* rounds to 24 bits and leaves a number of PREC <= 24 bits unchanged. *)
(* ------------------------------------------------------------------ *)

\* median(arr)
median(arr) ==
  LET fin == SelectSeq(arr, isFinite)
      a == SortSeq(fin, RLt)
      len == Len(a)
      mid == len \div 2
  IN  IF len = 0 THEN NaN
      ELSE IF len % 2 = 1 THEN a[mid + 1]
      ELSE JDiv(JAdd(a[mid], a[mid + 1]), Num(2))

\* The list implied of computeIndicatorNationalFromPolls over the first k keys
RECURSIVE impliedPairs(_, _, _)
impliedPairs(ratios, polls, k) ==
  IF k = 0 THEN <<>>
  ELSE
    LET rest == impliedPairs(ratios, polls, k - 1)
        p == computePollState(polls[k])
        r == ratios[k]
    IN  IF p.nul THEN rest
        ELSE Append(rest, Pair(JDiv(p.D, r.D), JDiv(p.R, r.R)))

\* What computeIndicatorNationalFromPolls returns for its list implied
indicatorOf(implied) ==
  IF Len(implied) = 0 THEN null
  ELSE normalizePair(median([j \in DOMAIN implied |-> implied[j].D]),
                     median([j \in DOMAIN implied |-> implied[j].R]))

\* computeIndicatorNationalFromPolls(modeKey)
computeIndicatorNationalFromPolls(data) ==
  indicatorOf(impliedPairs(data.ratios, data.polls, Len(data.ratios)))

\* The array comps of getStateModel, from its three pairs
compsOf(gbPair, pollPair, indPair) ==
  <<Comp(gbPair, Num(WEIGHTS.gb)),
    Comp(pollPair, IF pollPair.nul THEN Num(0) ELSE Num(WEIGHTS.polls)),
    Comp(indPair, IF indPair.nul THEN Num(0) ELSE Num(WEIGHTS.ind))>>

\* The array comps of getStateModel; gb0 is DATA[modeKey].gb
stateComponents(gb0, ratio, pollRaw, cachedIndNat) ==
  compsOf(computeGenericBallotState(IF gb0.nul THEN Neutral ELSE gb0, ratio),
          computePollState(pollRaw),
          IF cachedIndNat.nul THEN null
          ELSE computeIndicatorState(cachedIndNat, ratio))

\* The object a model function returns for its combined pair.
modelOf(combinedPair) ==
  [combinedPair |-> combinedPair,
   winProb |-> winProbFromMargin(marginRD(combinedPair))]

\* getStateModel(modeKey, st, cachedIndNat), for a state st that has a ratio
getStateModel(gb0, ratio, pollRaw, cachedIndNat) ==
  modelOf(weightedCombine(stateComponents(gb0, ratio, pollRaw, cachedIndNat)))

\* getHouseModel(did), for a district that has a ratio; gb0 is
\* DATA.house.gb || DATA.senate.gb || DATA.governor.gb
getHouseModel(gb0, ratio) ==
  modelOf(computeGenericBallotState(IF gb0.nul THEN Neutral ELSE gb0, ratio))

\* One accumulation of the inline combiner of runOddsOverTimeState:
\* if (pair && weight > 0) { wd += ...; wr += ...; w += ...; }
inlineAdd(acc, p, weight) ==
  IF p.nul \/ weight <= 0 THEN acc
  ELSE [wd |-> JAdd(acc.wd, JMul(Num(weight), p.D)),
        wr |-> JAdd(acc.wr, JMul(Num(weight), p.R)),
        w |-> JAdd(acc.w, Num(weight))]

\* pollPair of the inline combiner: from the day's entries pd, pr of the
\* poll matrix when both are finite, else from pollD0, pollR0, and null
\* when those are not both finite either.
inlinePollPair(pd, pr, pollD0, pollR0) ==
  IF isFinite(pd) /\ isFinite(pr) THEN normalizePair(pd, pr)
  ELSE IF isFinite(pollD0) /\ isFinite(pollR0) THEN normalizePair(pollD0, pollR0)
  ELSE null

\* indPair of the inline combiner
inlineIndPair(indD, indR, ratioD, ratioR) ==
  IF isFinite(indD) /\ isFinite(indR)
  THEN normalizePair(JMul(indD, ratioD), JMul(indR, ratioR))
  ELSE null

\* wd, wr, w of the inline combiner after its three accumulations
inlineAcc(gbPair, pollPair, indPair) ==
  inlineAdd(
    inlineAdd(
      inlineAdd([wd |-> Num(0), wr |-> Num(0), w |-> Num(0)], gbPair, WEIGHTS.gb),
      pollPair, WEIGHTS.polls),
    indPair, WEIGHTS.ind)

\* comb of the inline combiner
inlineComb(acc) ==
  IF JLt(Num(0), acc.w) THEN normalizePair(JDiv(acc.wd, acc.w), JDiv(acc.wr, acc.w))
  ELSE Neutral

\* What the inline combiner has computed when it stores the margin.
inlineResult(gbPair, pollPair, indPair, acc, comb) ==
  [gbPair |-> gbPair, pollPair |-> pollPair, indPair |-> indPair,
   w |-> acc.w, comb |-> comb, margin |-> JSub(comb.R, comb.D)]

inlineCombined(gbPair, pollPair, indPair, acc) ==
  inlineResult(gbPair, pollPair, indPair, acc, inlineComb(acc))

inlinePairs(gbPair, pollPair, indPair) ==
  inlineCombined(gbPair, pollPair, indPair, inlineAcc(gbPair, pollPair, indPair))

\* The body of the per-seat loop of runOddsOverTimeState for one day: gbd,
\* gbr the day's generic ballot, pd, pr the day's entries of the poll matrix
\* (the matrix is never null: STATE_POLL_DATA[modeKey] always exists).
inlineCombine(gbd, gbr, ratioD, ratioR, pd, pr, pollD0, pollR0, indD, indR) ==
  inlinePairs(normalizePair(JMul(gbd, ratioD), JMul(gbr, ratioR)),
              inlinePollPair(pd, pr, pollD0, pollR0),
              inlineIndPair(indD, indR, ratioD, ratioR))

(* ------------------------------------------------------------------ *)
(* The simulators                                                      *)
(* ------------------------------------------------------------------ *)

\* rules.total - rules.baseD - rules.baseR
upSeatsOf(rules) == rules.total - rules.baseD - rules.baseR

\* The margin the current-day simulators store for one key.
modelMargin(model) ==
  IF isFinite(marginRD(model.combinedPair)) THEN marginRD(model.combinedPair)
  ELSE Num(0)

\* The model of key k in the current-day simulator of modeKey.
currentModel(modeKey, data, cachedIndNat, k) ==
  IF modeKey = "house" THEN getHouseModel(data.gb, data.ratios[k])
  ELSE getStateModel(data.gb, data.ratios[k], data.polls[k], cachedIndNat)

\* The array margins of the current-day simulators: the first keys in
\* sorted order while the array has room, then zeros.
currentMargins(modeKey, data, cachedIndNat) ==
  LET upSeats == upSeatsOf(SEAT_RULES[modeKey])
      filled == Min2(Len(data.ratios), upSeats)
  IN  [j \in 1..upSeats |->
         IF j <= filled
         THEN modelMargin(currentModel(modeKey, data, cachedIndNat, j))
         ELSE Num(0)]

\* The swing formula with the configured range written into it.
swingOfFixedRange(r, range) ==
  JMul(JSub(JMul(r, Num(2)), Num(1)), Num(SENATE_MC_SWING_RANGE_PTS))

\* (Math.random() * 2 - 1) * range, r the value of Math.random()
swingOf(r, range) == JMul(JSub(JMul(r, Num(2)), Num(1)), Num(range))

\* The win probability of a seat in a trial, without the swing.
seatWinProbUnswung(margin, swing) == winProbD_fast(margin)

\* winProbD_fast(margins[i] + swing)
seatWinProb(margin, swing) == winProbD_fast(JAdd(margin, swing))

\* The values of Math.random() of the Bernoulli draws, in units of 10^-9.
RandomDraws == {Nano \div 4, 3 * (Nano \div 4)}

\* Math.random() < pD
demWins(r, pD) == r < pD

\* The seats the draws of RandomDraws can give either way, and the seats
\* they always give to D, for the probabilities p of the seats.
OpenSeats(p) ==
  {j \in DOMAIN p : \E r1, r2 \in RandomDraws : demWins(r1, p[j]) /\ ~demWins(r2, p[j])}

SureSeats(p) == {j \in DOMAIN p : \A r \in RandomDraws : demWins(r, p[j])}

\* The store into an Int16Array
Int16(v) == ((v + 32768) % 65536) - 32768

\* The control test at the end of a trial of the current-day simulators
demControlCurrent(modeKey, seats) ==
  IF modeKey = "senate" THEN seats >= SENATE_CONTROL_RULE.demAtLeast
  ELSE seats >= SEAT_RULES[modeKey].majorityLine

\* controlLine, tieIsDem, tieSeat and isDemCtrl of runOddsOverTimeState
controlLineOf(modeKey) ==
  IF modeKey = "senate" THEN SENATE_CONTROL_RULE.demAtLeast
  ELSE SEAT_RULES[modeKey].majorityLine

tieIsDemOf(modeKey) == modeKey = "governor"

tieSeatOf(modeKey) == SEAT_RULES[modeKey].majorityLine - 1

demControlSeries(modeKey, seats) ==
  \/ seats >= controlLineOf(modeKey)
  \/ tieIsDemOf(modeKey) /\ seats = tieSeatOf(modeKey)

\* +(a / b).toFixed(digits) for integers a >= 0, b > 0, in units of
\* 10^-digits
toFixedRatio(a, b, digits) == RoundDiv(a * 10^digits, b)

\* +x.toFixed(2) for a number x, in units of 10^-2; NaN stays NaN
toFixed2(x) ==
  IF ~isFinite(x) THEN x
  ELSE Rat(Sign(x.n) * RoundDiv(Abs(x.n) * 100, x.d), 100)

RECURSIVE SumSeq(_, _)
SumSeq(q, k) == IF k = 0 THEN 0 ELSE q[k] + SumSeq(q, k - 1)

\* The number of samples equal to v
CountOf(samples, v) == Cardinality({j \in DOMAIN samples : samples[j] = v})

\* buildRangeHistogram(samples, showMin, showMax)
buildRangeHistogram(samples, showMin, showMax) ==
  [counts |-> [j \in 1..(showMax - showMin + 1) |->
                 CountOf(samples, showMin + j - 1)],
   min |-> showMin, max |-> showMax, isProb |-> FALSE,
   total |-> IF Len(samples) = 0 THEN 1 ELSE Len(samples),
   binSize |-> 1]

\* toBinStart of buildBinnedHistogram
toBinStart(v, binSize, binOffset) ==
  ((v - binOffset) \div binSize) * binSize + binOffset

\* buildBinnedHistogram(samples, binSize, binOffset), for integers
buildBinnedHistogram(samples, binSize0, binOffset) ==
  LET binSize == Max2(1, binSize0)
      vals == {samples[j] : j \in DOMAIN samples}
      min == IF vals = {} THEN 0 ELSE CHOOSE v \in vals : \A u \in vals : v <= u
      max == IF vals = {} THEN 0 ELSE CHOOSE v \in vals : \A u \in vals : v >= u
      minB == toBinStart(min, binSize, binOffset)
      maxB == toBinStart(max, binSize, binOffset)
      len == Max2(1, ((maxB - minB) \div binSize) + 1)
      idxOf(v) == (toBinStart(v, binSize, binOffset) - minB) \div binSize
  IN  [counts |-> [j \in 1..len |->
                     Cardinality({i \in DOMAIN samples :
                                    idxOf(samples[i]) = j - 1})],
       min |-> minB, max |-> minB + (len - 1) * binSize + (binSize - 1),
       isProb |-> FALSE,
       total |-> IF Len(samples) = 0 THEN 1 ELSE Len(samples),
       binSize |-> binSize, binOffset |-> binOffset]

\* buildSeatHistogram(seatSamples, modeKey)
buildSeatHistogram(samples, modeKey) ==
  LET rules == SEAT_RULES[modeKey]
  IN  IF modeKey = "house" THEN buildBinnedHistogram(samples, 12, 2)
      ELSE IF modeKey = "senate"
      THEN buildRangeHistogram(samples, rules.baseD,
                               rules.baseD + upSeatsOf(rules))
      ELSE buildRangeHistogram(samples, 21, 31)

\* perDistrict / perState of the current-day simulators: one entry for each
\* of the first keys, as many as the array margins has room for.
currentPerState(modeKey, data, cachedIndNat, wins) ==
  LET upSeats == upSeatsOf(SEAT_RULES[modeKey])
      filled == Min2(Len(data.ratios), upSeats)
  IN  [j \in 1..filled |->
         [pDem |-> toFixedRatio(wins[j], NUM_SIMS, 4),
          margin |-> toFixed2(marginRD(
            currentModel(modeKey, data, cachedIndNat, j).combinedPair))]]

\* The windowed means buildPollMatrixForDays stores for one key and one
\* day dt: polls is the key's list in date order, hi the number of polls
\* dated dt or earlier.
RECURSIVE prefixSum(_, _, _)
prefixSum(polls, field, k) ==
  IF k = 0 THEN Num(0)
  ELSE JAdd(prefixSum(polls, field, k - 1), polls[k][field])

pollWindowMean(polls, field, dt, windowN) ==
  LET windowSize == Max2(1, windowN)
      hi == Cardinality({j \in DOMAIN polls : polls[j].date <= dt})
      lo == Max2(0, hi - windowSize)
      cnt == hi - lo
  IN  IF Len(polls) = 0 \/ cnt <= 0 THEN NaN
      ELSE JDiv(JSub(prefixSum(polls, field, hi), prefixSum(polls, field, lo)),
                Num(cnt))

\* buildPollMatrixForDays(modeKey, keys, dateStrs, windowN): entry
\* [day][i] is the matrix entry day * nStates + i
buildPollMatrixForDays(statePolls, dates, windowN) ==
  [pollDDay |-> [d \in DOMAIN dates |-> [j \in DOMAIN statePolls |->
                   pollWindowMean(statePolls[j], "D", dates[d], windowN)]],
   pollRDay |-> [d \in DOMAIN dates |-> [j \in DOMAIN statePolls |->
                   pollWindowMean(statePolls[j], "R", dates[d], windowN)]],
   nStates |-> Len(statePolls), nDays |-> Len(dates)]

\* The margins of one day in runOddsOverTimeState
seriesMargins(data, statePolls, series, cachedIndNat, d) ==
  LET pm == buildPollMatrixForDays(
              statePolls, [e \in DOMAIN series |-> series[e].date],
              STATE_POLL_WINDOW)
      indD == IF cachedIndNat.nul THEN NaN ELSE cachedIndNat.D
      indR == IF cachedIndNat.nul THEN NaN ELSE cachedIndNat.R
  IN  [j \in DOMAIN data.ratios |->
         LET rr == data.ratios[j]
             pp == data.polls[j]
         IN  inlineCombine(
               series[d].dem, series[d].rep,
               IF isFinite(rr.D) THEN rr.D ELSE Num(1),
               IF isFinite(rr.R) THEN rr.R ELSE Num(1),
               pm.pollDDay[d][j], pm.pollRDay[d][j],
               IF ~pp.nul /\ isFinite(pp.D) THEN pp.D ELSE NaN,
               IF ~pp.nul /\ isFinite(pp.R) THEN pp.R ELSE NaN,
               indD, indR).margin]

(* ------------------------------------------------------------------ *)
(* The loaded data                                                     *)
(*                                                                     *)
(* A scenario describes the input files of one chamber: K keys have a  *)
(* ratio, in sorted order nD of them lean to D, the next nT are even   *)
(* and the rest lean to R; the first even key can have a poll, from    *)
(* the entries file or from the dated state polls.                     *)
(* ------------------------------------------------------------------ *)

LeanD == Pair(Rat(3, 2), Rat(1, 2))

Even == Pair(Num(1), Num(1))

LeanR == Pair(Rat(1, 2), Rat(3, 2))

Scenario(run, mode, K, nD, nT, poll, dated) ==
  [run |-> run, mode |-> mode, K |-> K, nD |-> nD, nT |-> nT,
   poll |-> poll, dated |-> dated]

\* The series loadGenericBallotFromPollsJSON returns: one entry per day,
\* dates as day numbers.
gbSeriesOf(days) ==
  [e \in 1..days |->
     [date |-> e - 1, dem |-> Num(50 + 2 * (e - 1)), rep |-> Num(50 - 2 * (e - 1))]]

\* The poll of the polled key.
pollOf(sc) == IF sc.poll = "zero" THEN Pair(Num(0), Num(0)) ELSE Pair(Num(48), Num(46))

\* The key that has a poll, 0 when none has.
polledKey(sc) == IF sc.poll = "none" \/ sc.nT = 0 THEN 0 ELSE sc.nD + 1

\* STATE_POLL_DATA[modeKey] after loadStatePollsByDate, by key
statePollsOf(sc) ==
  [j \in 1..sc.K |->
     IF sc.dated /\ j = polledKey(sc)
     THEN <<[date |-> 0, D |-> pollOf(sc).D, R |-> pollOf(sc).R]>>
     ELSE <<>>]

\* The poll applyLatestStatePollsToData stores for a key that has dated
\* polls: the means of the last STATE_POLL_WINDOW of them.
latestStatePoll(polls) ==
  LET window == Min2(STATE_POLL_WINDOW, Len(polls))
      lo == Len(polls) - window
  IN  Pair(JDiv(JSub(prefixSum(polls, "D", Len(polls)), prefixSum(polls, "D", lo)),
                Num(window)),
           JDiv(JSub(prefixSum(polls, "R", Len(polls)), prefixSum(polls, "R", lo)),
                Num(window)))

\* DATA[modeKey] after the loaders and applyLatestStatePollsToData
dataOf(sc, series) ==
  [ratios |-> [j \in 1..sc.K |->
                 IF j <= sc.nD THEN LeanD
                 ELSE IF j <= sc.nD + sc.nT THEN Even
                 ELSE LeanR],
   polls |-> [j \in 1..sc.K |->
                IF j # polledKey(sc) THEN null
                ELSE IF sc.dated THEN latestStatePoll(statePollsOf(sc)[j])
                ELSE pollOf(sc)],
   gb |-> IF Len(series) = 0 THEN null
          ELSE normalizePair(series[Len(series)].dem, series[Len(series)].rep)]

Scenarios ==
  { Scenario("current", "senate", 35, 16, 2, "some", FALSE),
    Scenario("current", "senate", 34, 16, 1, "none", FALSE),
    Scenario("current", "senate", 36, 17, 1, "zero", FALSE),
    Scenario("current", "governor", 36, 19, 1, "some", TRUE),
    Scenario("current", "governor", 36, 36, 0, "none", FALSE),
    Scenario("current", "governor", 35, 0, 1, "none", FALSE),
    Scenario("current", "house", 435, 217, 1, "none", FALSE),
    Scenario("current", "house", 436, 218, 1, "none", FALSE),
    Scenario("series", "senate", 35, 16, 1, "zero", TRUE),
    Scenario("series", "senate", 35, 17, 1, "some", TRUE),
    Scenario("series", "governor", 36, 18, 1, "some", FALSE),
    Scenario("series", "governor", 36, 19, 1, "none", FALSE),
    Scenario("series", "senate", 34, 17, 0, "none", FALSE),
    Scenario("series", "senate", 36, 36, 0, "none", FALSE),
    Scenario("hybrid", "house", 435, 214, 1, "none", FALSE),
    Scenario("hybrid", "house", 435, 434, 1, "none", FALSE),
    Scenario("hybrid", "house", 436, 0, 1, "none", FALSE),
    Scenario("districts", "house", 6, 2, 2, "none", FALSE),
    Scenario("districts", "house", 0, 0, 0, "none", FALSE) }

\* The values of Math.random() of the swing draws.
SwingDraws == {Rat(1, 4), Rat(3, 4)}

\* The swing range a simulator is written with.
configuredRange(run, mode) ==
  IF mode = "house" THEN HOUSE_MC_SWING_RANGE_PTS
  ELSE SENATE_MC_SWING_RANGE_PTS

(* ------------------------------------------------------------------ *)
(* Output compaction                                                   *)
(*                                                                     *)
(* A stateOddsMap is a sequence over its keys (in the order of         *)
(* Object.entries) of series; a series is a sequence of points         *)
(* [date, pDem, margin].  A date is a day number: the date strings are *)
(* ISO dates, whose string order is the order of the days.  pDem is a  *)
(* count of units of 10^-4.  Array positions of the source count from  *)
(* 0, sequence positions from 1; the indices stored in an encoded      *)
(* series are those of the source.                                     *)
(* ------------------------------------------------------------------ *)

MaxOf(S) == CHOOSE v \in S : \A u \in S : v >= u

MinOf(S) == CHOOSE v \in S : \A u \in S : v <= u

\* range = mx - mn of the pDem values of a series
pDemRange(arr) ==
  LET vals == {arr[e].pDem : e \in DOMAIN arr}
  IN  MaxOf(vals) - MinOf(vals)

\* The step downsampleStateOdds chooses, 0 for keeping every point.  The
\* difference mx - mn of two doubles that are exactly 0.02 (0.05) apart can
\* round to either side of 0.02 (0.05): below is the side it took.
stepOf(range, below) ==
  IF range < 200 \/ (range = 200 /\ below) THEN 7
  ELSE IF range < 500 \/ (range = 500 /\ below) THEN 3
  ELSE 0

\* The test of the downsampling loop with the last index forgotten
keepPointNotLast(i, len, step) == i = 0 \/ i % step = 0

\* The test of the downsampling loop: i === 0 || i === arr.length - 1 ||
\* i % step === 0
keepPoint(i, len, step) == i = 0 \/ i = len - 1 \/ i % step = 0

\* The points of arr, from position e on, that the loop pushes
RECURSIVE keptFrom(_, _, _)
keptFrom(arr, e, step) ==
  IF e > Len(arr) THEN <<>>
  ELSE (IF keepPoint(e - 1, Len(arr), step) THEN <<arr[e]>> ELSE <<>>)
         \o keptFrom(arr, e + 1, step)

\* What downsampleStateOdds stores for one key
downsampleSeries(arr, below) ==
  IF Len(arr) <= 2 THEN arr
  ELSE IF stepOf(pDemRange(arr), below) = 0 THEN arr
  ELSE keptFrom(arr, 1, stepOf(pDemRange(arr), below))

\* downsampleStateOdds(stateOddsMap)
downsampleStateOdds(map, below) ==
  [k \in DOMAIN map |-> downsampleSeries(map[k], below)]

\* [...allDates].sort()
RECURSIVE sortedDates(_)
sortedDates(S) ==
  IF S = {} THEN <<>>
  ELSE <<MinOf(S)>> \o sortedDates(S \ {MinOf(S)})

\* The position of a date counted from 1
dateIndexFromOne(dates, d) == CHOOSE i \in DOMAIN dates : dates[i] = d

\* dateIndex[d]
dateIndexOf(dates, d) == (CHOOSE i \in DOMAIN dates : dates[i] = d) - 1

\* isDense with the test of the single steps left out
isDenseByLength(indices) ==
  /\ Len(indices) > 0
  /\ Len(indices) = indices[Len(indices)] - indices[1] + 1

\* isDense of encodeStateOddsColumnar
isDense(indices) ==
  /\ Len(indices) > 0
  /\ Len(indices) = indices[Len(indices)] - indices[1] + 1
  /\ \A e \in DOMAIN indices : e = 1 \/ indices[e] = indices[e - 1] + 1

\* states[key] of encodeStateOddsColumnar; i is not a field of a dense
\* entry and s not one of a sparse entry
encodeSeries(arr, dates) ==
  LET indices == [e \in DOMAIN arr |-> dateIndexOf(dates, arr[e].date)]
      pDem == [e \in DOMAIN arr |-> arr[e].pDem]
      margin == [e \in DOMAIN arr |-> arr[e].margin]
  IN  IF isDense(indices)
      THEN [form |-> "dense", s |-> indices[1], i |-> <<>>, p |-> pDem, m |-> margin]
      ELSE [form |-> "sparse", s |-> -1, i |-> indices, p |-> pDem, m |-> margin]

\* encodeStateOddsColumnar(stateOddsMap)
encodeStateOddsColumnar(map) ==
  LET dates == sortedDates(UNION {{map[k][e].date : e \in DOMAIN map[k]} :
                                    k \in DOMAIN map})
  IN  [dates |-> dates,
       states |-> [k \in DOMAIN map |-> encodeSeries(map[k], dates)]]

MaxSeriesLen == 9

\* The series a stateOddsMap is made of: len points; the dates
\* consecutive from the first day or from the second, with gaps, repeated,
\* descending or with two neighbours swapped; pDem alternating between two
\* values.
seriesOf(len, spread, pattern) ==
  [e \in 1..len |->
     [date |-> IF pattern = "consecutive" THEN e - 1
               ELSE IF pattern = "shifted" THEN e
               ELSE IF pattern = "swapped"
               THEN (IF e = 2 /\ len >= 3 THEN 2 ELSE IF e = 3 THEN 1 ELSE e - 1)
               ELSE IF pattern = "gapped" THEN 2 * (e - 1)
               ELSE IF pattern = "repeated" THEN (e - 1) \div 2
               ELSE len - e,
      pDem |-> 5000 + (e % 2) * spread,
      margin |-> Rat(e - 3, 100)]]

Spreads == {0, 200, 300, 500, 1000}

Patterns == {"consecutive", "gapped", "repeated", "descending", "swapped"}

(* ------------------------------------------------------------------ *)
(* The time series of the house                                        *)
(*                                                                     *)
(* A sum of probabilities is kept exactly, as whole units and units of *)
(* 10^-9 (the doubles mu and va of the source carry it to 10^-13); the *)
(* seat total of a trial is computed in units of 10^-6 from mu and     *)
(* from the standard deviation in units of 10^-3.  The Float32Array    *)
(* stores of muBy and vaBy are not rounded.                            *)
(* ------------------------------------------------------------------ *)

\* dateStr of a day with every day given the first date
dateStrOfFirst(series, d) == series[1].date

\* gbSeries[day].date
dateStrOf(series, d) == series[d + 1].date

\* swings: s = -range, s += 0.1 while s <= range + 1e-9.  The rounding
\* errors of the additions stay below the 1e-9 of the loop test, so the
\* grid has 20 * range + 1 points; the model takes them exact.
swingGrid(range) == [j \in 1..(20 * range + 1) |-> Rat(j - 1 - 10 * range, 10)]

\* den > 0 ? 100 * (r0 * b - d0 * a) / den : 0, for x = d0 * a, y = r0 * b
marginOfShares(x, y) ==
  LET den == JAdd(x, y)
  IN  IF JLt(Num(0), den) THEN JDiv(JMul(Num(100), JSub(y, x)), den) ELSE Num(0)

\* margins of one day in runOddsOverTimeHouse: seatTotal entries, the
\* first for the keys in order, the rest 0
ratioOr1(x) == IF isFinite(x) THEN x ELSE Num(1)

houseSeriesMargins(data, series, d) ==
  [k \in 1..SEAT_RULES.house.total |->
     IF k <= Len(data.ratios)
     THEN marginOfShares(JMul(series[d].dem, ratioOr1(data.ratios[k].D)),
                         JMul(series[d].rep, ratioOr1(data.ratios[k].R)))
     ELSE Num(0)]

Zero9 == [whole |-> 0, frac |-> 0]

\* acc + c * p for a count c of seats and a value 0 <= p <= 1 in units of
\* 10^-9, without leaving 32 bits
addTimes(acc, p, c) ==
  LET hi == (p \div 10^5) * c
      lo == (p % 10^5) * c
      f == acc.frac + lo
      g == (f % Nano) + (hi % 10^4) * 10^5
  IN  [whole |-> acc.whole + (hi \div 10^4) + (f \div Nano) + (g \div Nano),
       frac |-> g % Nano]

\* The sum over the seats of f(margin), the seats of equal margin taken
\* together
RECURSIVE sumOverMargins(_, _, _, _)
RECURSIVE sumStep(_, _, _, _, _)
termOf(p, variance) == IF variance THEN MulNano(p, Nano - p) ELSE p

seatsAt(margins, v) == Cardinality({k \in DOMAIN margins : margins[k] = v})

sumStep(margins, vals, v, sw, variance) ==
  addTimes(sumOverMargins(margins, vals \ {v}, sw, variance),
           termOf(winProbD_fast(JAdd(v, sw)), variance),
           seatsAt(margins, v))

sumOverMargins(margins, vals, sw, variance) ==
  IF vals = {} THEN Zero9
  ELSE sumStep(margins, vals, CHOOSE x \in vals : TRUE, sw, variance)

\* muBy[j] and vaBy[j]
muBy(margins, sw) ==
  sumOverMargins(margins, {margins[k] : k \in DOMAIN margins}, sw, FALSE)

vaBy(margins, sw) ==
  sumOverMargins(margins, {margins[k] : k \in DOMAIN margins}, sw, TRUE)

micro(s) == s.whole * 10^6 + RoundDiv(s.frac, 1000)

\* Math.sqrt of a value in units of 10^-6, in units of 10^-3
RECURSIVE isqrtFrom(_, _, _)
isqrtFrom(v, r, b) ==
  IF b = 0 THEN r
  ELSE IF (r + b) * (r + b) <= v THEN isqrtFrom(v, r + b, b \div 2)
  ELSE isqrtFrom(v, r, b \div 2)

sqrtMicro(v) == isqrtFrom(v, 0, 2^14)

\* (Math.random() * nSw) | 0
gridIndexOf(u, nSw) == (u.n * nSw) \div u.d

\* The draws of a trial: the value of Math.random() for the grid index, and
\* the value of Math.sqrt(-2.0 * Math.log(u)) * Math.cos(2.0 * Math.PI * v)
\* in units of 10^-3, which for u, v in (0, 1) lies between -8.6 and 8.6.
HybridDraws ==
  { [u |-> Num(0), z |-> 8500], [u |-> Rat(999, 1000), z |-> -8500] }

\* seats before rounding, in units of 10^-6: muBy[j], and the deviate
\* added when vaBy[j] > 1e-9
seatsRaw(mu, va, z) ==
  IF va.whole > 0 \/ va.frac > 1 THEN micro(mu) + sqrtMicro(micro(va)) * z
  ELSE micro(mu)

\* Math.round of a value in units of 10^-6
roundMicro(x) == (x + 5 * 10^5) \div 10^6

\* The two clamps with the upper one left out
clampSeatsBelow(seats, seatTotal) == IF seats < 0 THEN 0 ELSE seats

\* if (seats < 0) seats = 0; if (seats > seatTotal) seats = seatTotal;
clampSeats(seats, seatTotal) ==
  IF seats < 0 THEN 0 ELSE IF seats > seatTotal THEN seatTotal ELSE seats

\* seats of one trial of runOddsOverTimeHouse
hybridSeats(margins, sw, z) ==
  clampSeats(roundMicro(seatsRaw(muBy(margins, sw), vaBy(margins, sw), z)),
             SEAT_RULES.house.total)

\* checkDays of computeHouseDistrictOddsOverTime
checkDays(len) == <<0, len \div 2, len - 1>>

\* marginRD(gbPair) of a district on the day d of the series
districtMargin(series, d, ratio) ==
  marginRD(computeGenericBallotState(
    normalizePair(series[d + 1].dem, series[d + 1].rep), ratio))

\* Math.abs(marginRD(gbPair)) < 15; the margin of a pair normalizePair
\* returned is finite.
isCompetitive(margin) == RLt(Rat(Abs(margin.n), margin.d), Num(15))

\* The first of the check days on which a key is competitive, 0 when on
\* none
firstOf(at) == IF at = {} THEN 0 ELSE MinOf(at)

firstCheck(data, series, k) ==
  firstOf({c \in 1..3 :
             isCompetitive(districtMargin(series, checkDays(Len(series))[c],
                                          data.ratios[k]))})

\* competitive: the keys in the order the set received them, first being
\* the first check day of every key
keysInOrder(first) ==
  sortedDates({k \in DOMAIN first : first[k] = 1})
    \o sortedDates({k \in DOMAIN first : first[k] = 2})
    \o sortedDates({k \in DOMAIN first : first[k] = 3})

competitiveKeys(data, series) ==
  keysInOrder([k \in DOMAIN data.ratios |-> firstCheck(data, series, k)])

\* The entry pushed for a district and a day
districtEntry(date, margin) ==
  [date |-> date,
   pDem |-> RoundDiv(winProbFromMargin(margin).pD, 10^5),
   margin |-> toFixed2(margin)]

\* result of computeHouseDistrictOddsOverTime for the competitive keys
districtSeries(competitive, data, series) ==
  [failure |-> "none",
   keys |-> competitive,
   odds |-> [c \in DOMAIN competitive |->
               [e \in DOMAIN series |->
                  districtEntry(dateStrOf(series, e - 1),
                                districtMargin(series, e - 1,
                                               data.ratios[competitive[c]]))]]]

\* The test that returns {} at once, without the length of the series
districtsEmptyByKeys(data, series) == Len(data.ratios) = 0

\* !ratioKeys.length || !gbSeries.length
districtsEmpty(data, series) == Len(data.ratios) = 0 \/ Len(series) = 0

\* computeHouseDistrictOddsOverTime(gbSeries): the keys of the result in
\* their order and the series of each; reading gbSeries[0].dem of an
\* empty series throws a TypeError.
districtOdds(data, series) ==
  IF districtsEmpty(data, series)
  THEN [failure |-> "none", keys |-> <<>>, odds |-> <<>>]
  ELSE IF Len(series) = 0
  THEN [failure |-> "TypeError", keys |-> <<>>, odds |-> <<>>]
  ELSE districtSeries(competitiveKeys(data, series), data, series)

\* The lengths of the generic-ballot series of a run
SeriesLengths(run) ==
  IF run = "current" THEN {NumDays}
  ELSE IF run = "districts" THEN {0, NumDays, NumDays + 1}
  ELSE {0, NumDays}

(* ------------------------------------------------------------------ *)
(* Reading the chamber configuration                                   *)
(* ------------------------------------------------------------------ *)

\* The value undefined: what reading a property an object does not have
\* gives.
Undefined == [k |-> "undef", n |-> 0, d |-> 1]

\* ToNumber of a number or of undefined.
ToNumber(x) == IF x.k = "undef" THEN NaN ELSE x

\* x >= y
JGe(x, y) == JLe(ToNumber(y), ToNumber(x))

\* x === y of a number or undefined
StrictEq(x, y) ==
  IF x.k = "undef" \/ y.k = "undef" THEN x.k = y.k
  ELSE ~IsNaN(x) /\ ~IsNaN(y) /\ x = y

RuleFields == {"total", "majorityLine", "baseR", "baseD"}

\* SEAT_RULES[modeKey] of a table whose entries lack the field `missing`
\* ("none": the table of the source).
rulesEntry(modeKey, missing) ==
  IF modeKey \notin DOMAIN SEAT_RULES THEN Undefined
  ELSE [f \in RuleFields \cup {"k"} |->
          IF f = "k" THEN "obj"
          ELSE IF f = missing THEN Undefined
          ELSE Num(SEAT_RULES[modeKey][f])]

\* rules.total - rules.baseD - rules.baseR
upSeatsJs(rules) ==
  JSub(JSub(ToNumber(rules.total), ToNumber(rules.baseD)),
       ToNumber(rules.baseR))

\* The length of new Float32Array(x): ToIndex takes NaN to 0.
typedArrayLength(x) == IF IsNaN(x) THEN 0 ELSE x.n

\* The number of iterations of for (i = 0; i < x; i++).
loopCount(x) == IF IsNaN(x) \/ x.n < 0 THEN 0 ELSE x.n

\* The value an Int16Array stores for x.
toInt16(x) == IF isFinite(ToNumber(x)) THEN x.n ELSE 0

\* dSeats of runGovernorSimulation after dWins increments of rules.baseD.
dSeatsCurrent(rules, dWins) ==
  IF dWins = 0 THEN rules.baseD
  ELSE JAdd(ToNumber(rules.baseD), Num(dWins))

\* dSeats of runOddsOverTimeState: baseD + dWins.
dSeatsSeries(rules, dWins) == JAdd(ToNumber(rules.baseD), Num(dWins))

\* The control test of runGovernorSimulation.
isDemCtrlCurrent(rules, dSeats) == JGe(dSeats, rules.majorityLine)

\* controlLine of runOddsOverTimeState.
controlLineJs(modeKey, rules) ==
  IF modeKey = "senate" THEN Num(SENATE_CONTROL_RULE.demAtLeast)
  ELSE rules.majorityLine

\* The control test of runOddsOverTimeState.
isDemCtrlSeries(modeKey, rules, dSeats) ==
  \/ JGe(dSeats, controlLineJs(modeKey, rules))
  \/ /\ modeKey = "governor"
     /\ StrictEq(dSeats, JSub(ToNumber(rules.majorityLine), Num(1)))

\* The numbers of seats D wins in the trials that are followed.
WinCounts(n) == {w \in {0, 19, n} : w <= n}

\* The chamber keys the time series is called with; "president" is a key
\* SEAT_RULES does not have.
ConfigKeys(fn) ==
  IF fn = "runGovernorSimulation" THEN {"governor"}
  ELSE {"senate", "governor", "president"}

(* ------------------------------------------------------------------ *)
(* The poll signal of one seat over the days of the series             *)
(* ------------------------------------------------------------------ *)

\* The largest number of dated polls of the seat.
MaxPolls == 7

\* The dates of the polls are 0..LastPollDate, the dates of the generic
\* ballot series 0..LastPollDate - 1.
LastPollDate == 3

\* The j-th poll of the seat on the given date.
pollNo(j, date) == [date |-> date, D |-> Num(40 + j), R |-> Num(50 - 2 * j)]

\* The lists STATE_POLL_DATA[mode][st] can hold after loadStatePollsByDate
\* has sorted them: n polls in date order.
SortedPolls(n) ==
  { [j \in 1..n |-> pollNo(j, dates[j])] :
      dates \in {f \in [1..n -> 0..LastPollDate] :
                   \A j \in 1..n : j < n => f[j] <= f[j + 1]} }

\* pollD0[i], pollR0[i] of runOddsOverTimeState
pollD0Of(pp) == IF ~pp.nul /\ isFinite(pp.D) THEN pp.D ELSE NaN

pollR0Of(pp) == IF ~pp.nul /\ isFinite(pp.R) THEN pp.R ELSE NaN

\* pollPair of runOddsOverTimeState for a seat on the day dated dt: polls
\* is the seat's list of dated polls and pp its entry of DATA[modeKey].polls.
pollPairOfDay(polls, pp, dt) ==
  inlinePollPair(pollWindowMean(polls, "D", dt, STATE_POLL_WINDOW),
                 pollWindowMean(polls, "R", dt, STATE_POLL_WINDOW),
                 pollD0Of(pp), pollR0Of(pp))

(* ------------------------------------------------------------------ *)
(* The generic-ballot series: calcLastNPollsSeries                     *)
(*                                                                     *)
(* A Date is a calendar day of the local time zone and whether its     *)
(* time of day is after midnight: in a zone whose clocks go forward at *)
(* midnight, the day of the change (gapDay) has no midnight, and the   *)
(* Date built for its midnight is an hour later.                       *)
(* ------------------------------------------------------------------ *)

\* The largest number of polls handed to calcLastNPollsSeries.
MaxGbPolls == 3

\* The polls are dated 0..LastGbDate, and today is one of 0..LastGbDate + 1.
LastGbDate == 2

\* The largest window N.
MaxWindow == 2

\* No day of the zone lacks its midnight.
NoGap == -1

\* new Date(y, m, d) for the calendar day s
parseDate(s, gapDay) == [day |-> s, late |-> s = gapDay]

\* today.setHours(0, 0, 0, 0)
midnightOf(s, gapDay) == [day |-> s, late |-> s = gapDay]

\* day.setDate(day.getDate() + 1): the next calendar day at the same time of
\* day, or an hour after midnight when that is the day without midnight
setDateNext(d, gapDay) ==
  [day |-> d.day + 1, late |-> d.late \/ d.day + 1 = gapDay]

\* isoDate(d)
isoDate(d) == d.day

\* a <= b and a > b of two Dates
dateLe(a, b) == a.day < b.day \/ (a.day = b.day /\ (a.late => b.late))

dateGt(a, b) == ~dateLe(a, b)

\* The j-th poll handed in, dated s; valid tells whether its dem is a number.
gbPollNo(j, s, valid, gapDay) ==
  [date |-> parseDate(s, gapDay),
   dem |-> IF valid THEN Fl(431 + 16 * j, 10) ELSE NaN,
   rep |-> Fl(452 - 7 * j, 10)]

\* The filter of calcLastNPollsSeries
validPolls(gbPolls) ==
  SelectSeq(gbPolls, LAMBDA p : isFinite(p.dem) /\ isFinite(p.rep))

\* sort((a, b) => a.date - b.date): p put into a list in date order, behind
\* the entries of its date
RECURSIVE insertByDate(_, _)
insertByDate(sorted, p) ==
  IF Len(sorted) = 0 THEN <<p>>
  ELSE IF dateLe(sorted[Len(sorted)].date, p.date) THEN Append(sorted, p)
  ELSE Append(insertByDate(SubSeq(sorted, 1, Len(sorted) - 1), p),
              sorted[Len(sorted)])

RECURSIVE sortByDate(_)
sortByDate(polls) ==
  IF Len(polls) = 0 THEN <<>>
  ELSE insertByDate(sortByDate(SubSeq(polls, 1, Len(polls) - 1)),
                    polls[Len(polls)])

\* t1: the later of today and the day of the last poll
lastDayOf(today, lastPollDay) ==
  IF dateGt(today, lastPollDay) THEN today ELSE lastPollDay

\* while (hi < n && dates[hi] <= day) hi++
RECURSIVE scanHi(_, _, _)
scanHi(polls, hi, day) ==
  IF hi < Len(polls) /\ dateLe(polls[hi + 1].date, day)
  THEN scanHi(polls, hi + 1, day)
  ELSE hi

\* The entry of the day with the scan pointer at hi, or no entry: the
\* sequence that is appended to out
gbEntry(polls, hi, N, day) ==
  IF hi - Max2(0, hi - N) <= 0 THEN <<>>
  ELSE << [date |-> isoDate(day),
           dem |-> JDiv(JSub(prefixSum(polls, "dem", hi),
                             prefixSum(polls, "dem", Max2(0, hi - N))),
                        Num(hi - Max2(0, hi - N))),
           rep |-> JDiv(JSub(prefixSum(polls, "rep", hi),
                             prefixSum(polls, "rep", Max2(0, hi - N))),
                        Num(hi - Max2(0, hi - N))),
           count |-> hi - Max2(0, hi - N)] >>

(* ------------------------------------------------------------------ *)
(* State                                                               *)
(* ------------------------------------------------------------------ *)

VARIABLES
  pairPc,      \* pair arithmetic: "idle", "start", "normalized", "combined"
  argD, argR,  \* the arguments of normalizePair
  pair,        \* the pair normalizePair returned
  components,  \* the array handed to weightedCombine
  combined,    \* the pair weightedCombine returned
  probPc,      \* probability model: "idle", "start", "exact", "fast"
  m1, m2,      \* two margins
  pD1, pD2,    \* winProbFromMargin(m).pD for each, -1 before the call
  idx1, idx2,  \* the table index winProbD_fast computed, -1 when none
  fast1, fast2,\* what winProbD_fast returned, -1 before the call
  seatPc,      \* seat model: "idle", "start", "state", "series"
  seatGb,      \* DATA[modeKey].gb: a pair or null
  seatRatio,   \* the seat's ratio
  seatPoll,    \* DATA[modeKey].polls[st]: a pair or null
  seatDayPoll, \* the day's entries of the poll matrix for the seat
  seatInd,     \* cachedIndNat: a pair or null
  comps,       \* the array comps getStateModel built
  model,       \* what getStateModel returned
  inline,      \* what the inline combiner of runOddsOverTimeState computed
  simPc,       \* simulators: "idle", "start", "day", "swing", "seats",
               \* "finish", "dayEnd", "done"
  runKind,     \* "current": a current-day simulator, "series": runOddsOverTimeState
  modeKey,     \* "senate", "governor" or "house"
  DATA,        \* DATA[modeKey]
  STATE_POLL_DATA, \* STATE_POLL_DATA[modeKey]
  gbSeries,
  cachedIndNat,
  swingRange,  \* the swing range the simulator runs with
  margins,
  day,         \* the day of runOddsOverTimeState, from 0
  simNo,       \* the loop variable s of the trial loop
  swing,       \* the swing of the trial
  pUsed,       \* the pD of every seat in the last seat loop
  dSeats,
  isDemCtrl,   \* whether the last trial was counted for D
  demControl,
  sumDSeats,
  seatSamples,
  stateDemWins,
  results,
  perStateResults,
  output,      \* what a current-day simulator returned
  draws        \* how often Math.random() was called for a swing and for a seat

pairVars == <<pairPc, argD, argR, pair, components, combined>>

probVars == <<probPc, m1, m2, pD1, pD2, idx1, idx2, fast1, fast2>>

seatVars ==
  <<seatPc, seatGb, seatRatio, seatPoll, seatDayPoll, seatInd, comps, model, inline>>

inputVars ==
  <<runKind, modeKey, DATA, STATE_POLL_DATA, gbSeries, cachedIndNat, swingRange>>

simVars ==
  <<simPc, inputVars, margins, day, simNo, swing, pUsed, dSeats, isDemCtrl,
    demControl, sumDSeats, seatSamples, stateDemWins, results, perStateResults,
    output, draws>>

VARIABLES
  compPc,        \* compaction: "idle", "start", "downsampled", "encoded"
  stateOddsMap,  \* the argument of downsampleStateOdds
  downsampled,   \* what downsampleStateOdds returned
  encoded        \* what encodeStateOddsColumnar returned

compVars == <<compPc, stateOddsMap, downsampled, encoded>>

NoEncoding == [dates |-> <<>>, states |-> <<>>]

CompBlank ==
  /\ downsampled = <<>>
  /\ encoded = NoEncoding

CompIdle ==
  /\ compPc = "idle"
  /\ stateOddsMap = <<>>
  /\ CompBlank

VARIABLES
  hyNo,          \* the loop variable s of the trial loop of runOddsOverTimeHouse
  hyJ,           \* the grid index j of the last trial, -1 before the first
  hySeats,       \* seats of the last trial
  hyWin,         \* whether the last trial was counted for D
  districtKeys,  \* the keys of what computeHouseDistrictOddsOverTime returned
  failure        \* "none", or the error a time-series function threw

hybridVars == <<hyNo, hyJ, hySeats, hyWin, districtKeys, failure>>

HybridIdle ==
  /\ hyNo = 0 /\ hyJ = -1 /\ hySeats = 0 /\ hyWin = FALSE
  /\ districtKeys = <<>>
  /\ failure = "none"

VARIABLES
  cfgPc,         \* "idle", "start", "trial", "done"
  cfgFn,         \* the function called
  cfgKey,        \* its chamber key
  cfgRules,      \* SEAT_RULES[cfgKey] as the function reads it
  cfgLen,        \* the number of seats a trial loops over
  cfgS,          \* the loop variable s
  cfgDSeats,     \* dSeats of the last trial
  cfgDemControl, \* demControl
  cfgSum,        \* the sum of the seat samples (sumDSeats)
  cfgOutcome     \* "none", "TypeError" or "returned"

cfgVars ==
  <<cfgPc, cfgFn, cfgKey, cfgRules, cfgLen, cfgS, cfgDSeats, cfgDemControl,
    cfgSum, cfgOutcome>>

ConfigBlank ==
  /\ cfgLen = 0 /\ cfgS = 0 /\ cfgDSeats = Undefined /\ cfgDemControl = 0
  /\ cfgSum = Num(0) /\ cfgOutcome = "none"

ConfigIdle ==
  /\ cfgPc = "idle" /\ cfgFn = "none" /\ cfgKey = "none"
  /\ cfgRules = Undefined
  /\ ConfigBlank

VARIABLES
  winpTable      \* the contents of WINP_PD_TABLE

tableVars == <<winpTable>>

\* new Float32Array(WINP_N)
newTable == [i \in 0..(WINP_N - 1) |-> 0]

\* The table is followed from the loading of the module to the end of the
\* run in SpecSim only.
TableIdle == winpTable = <<>>

VARIABLES
  pollPc,        \* "idle", "load", "days", "done"
  seatPolls,     \* STATE_POLL_DATA[modeKey][k] of the seat
  dataPoll,      \* DATA[modeKey].polls[k] of the seat
  pollDay,       \* the loop variable day
  pollSignal     \* pollPair of the days so far

pollVars == <<pollPc, seatPolls, dataPoll, pollDay, pollSignal>>

PollIdle ==
  /\ pollPc = "idle"
  /\ seatPolls = <<>>
  /\ dataPoll = null
  /\ pollDay = 0
  /\ pollSignal = <<>>

VARIABLES
  gbPc,          \* "idle", "start", "loop", "done"
  gapDay,        \* the day of the zone that has no midnight, or NoGap
  gbPolls,       \* the argument gbPolls
  gbN,           \* the argument N
  gbToday,       \* the calendar day of the run
  gbSorted,      \* polls: the valid polls in date order
  gbT1,          \* t1
  gbDay,         \* the loop variable day
  gbHi,          \* hi
  gbHiBefore,    \* hi before the last iteration
  gbOut          \* out

gbVars ==
  <<gbPc, gapDay, gbPolls, gbN, gbToday, gbSorted, gbT1, gbDay, gbHi,
    gbHiBefore, gbOut>>

NoDate == [day |-> 0, late |-> FALSE]

GbBlank ==
  /\ gbSorted = <<>>
  /\ gbT1 = NoDate /\ gbDay = NoDate
  /\ gbHi = 0 /\ gbHiBefore = 0
  /\ gbOut = <<>>

GbIdle ==
  /\ gbPc = "idle"
  /\ gapDay = NoGap
  /\ gbPolls = <<>>
  /\ gbN = 1
  /\ gbToday = 0
  /\ GbBlank

VARIABLES
  distPc,        \* "idle", "call", "done"
  houseData,     \* DATA.house
  distSeries,    \* the argument gbSeries
  distResult     \* the value returned

distVars == <<distPc, houseData, distSeries, distResult>>

DistIdle ==
  /\ distPc = "idle"
  /\ houseData = [ratios |-> <<>>]
  /\ distSeries = <<>>
  /\ distResult = [failure |-> "none", keys |-> <<>>, odds |-> <<>>]
VARIABLES
  resultsFile,   \* simulation_results.json: kind "absent", "corrupt" (no
                 \* JSON), "json"; hasHistory: the object has a history
  histToday,     \* today of the last run of main, 0 before the first
  histRuns       \* the number of runs of main so far

histVars == <<resultsFile, histToday, histRuns>>

NoFile == [kind |-> "absent", hasHistory |-> FALSE, history |-> <<>>]

HistIdle ==
  /\ resultsFile = NoFile
  /\ histToday = 0
  /\ histRuns = 0
VARIABLES
  fjPc,          \* fetchJson: "idle", "loop", "returned", "thrown"
  attempt,       \* the loop variable attempt
  lastErr,       \* lastErr
  responses,     \* what the requests of the call met, in order
  fjThrown       \* the value thrown

\* null, as the value of lastErr
NoError == [kind |-> "null", attempt |-> 0]

fetchVars == <<fjPc, attempt, lastErr, responses, fjThrown>>

FetchIdle ==
  /\ fjPc = "idle"
  /\ attempt = 0
  /\ lastErr = NoError
  /\ responses = <<>>
  /\ fjThrown = NoError
VARIABLES
  frPc,          \* fetchRangeRobust: "idle", "run", "done", "thrown"
  springDay,     \* the day whose local successor has the same UTC date, or
                 \* NoSpring
  frRange,       \* from_date, to_date of the outermost call
  frStack,       \* the ranges of the calls still to be made, next first
  frSlices,      \* the ranges of the lists returned, in the order in which
                 \* the result concatenates them
  debug,         \* debug: okSlices, failedSlices, skippedDays
  frMet          \* the kinds of failure met so far

NoSpring == -1

NoDebug == [okSlices |-> 0, failedSlices |-> 0, skippedDays |-> <<>>]

rangeVars == <<frPc, springDay, frRange, frStack, frSlices, debug, frMet>>

RangeIdle ==
  /\ frPc = "idle"
  /\ springDay = NoSpring
  /\ frRange = [from |-> 1, to |-> 1]
  /\ frStack = <<>>
  /\ frSlices = <<>>
  /\ debug = NoDebug
  /\ frMet = {}
restVars == <<compVars, hybridVars, cfgVars, tableVars, pollVars, gbVars, distVars, histVars, fetchVars, rangeVars>>

restExceptCompVars == <<hybridVars, cfgVars, tableVars, pollVars, gbVars, distVars, histVars, fetchVars, rangeVars>>

restExceptHybridVars == <<compVars, cfgVars, tableVars, pollVars, gbVars, distVars, histVars, fetchVars, rangeVars>>

restExceptConfigVars == <<compVars, hybridVars, tableVars, pollVars, gbVars, distVars, histVars, fetchVars, rangeVars>>

restExceptTableVars == <<compVars, hybridVars, cfgVars, pollVars, gbVars, distVars, histVars, fetchVars, rangeVars>>

restExceptPollVars == <<compVars, hybridVars, cfgVars, tableVars, gbVars, distVars, histVars, fetchVars, rangeVars>>

restExceptGbVars == <<compVars, hybridVars, cfgVars, tableVars, pollVars, distVars, histVars, fetchVars, rangeVars>>

restExceptDistVars == <<compVars, hybridVars, cfgVars, tableVars, pollVars, gbVars, histVars, fetchVars, rangeVars>>

restExceptHistVars == <<compVars, hybridVars, cfgVars, tableVars, pollVars, gbVars, distVars, fetchVars, rangeVars>>

restExceptFetchVars == <<compVars, hybridVars, cfgVars, tableVars, pollVars, gbVars, distVars, histVars, rangeVars>>

restExceptRangeVars == <<compVars, hybridVars, cfgVars, tableVars, pollVars, gbVars, distVars, histVars, fetchVars>>

vars == <<pairVars, probVars, seatVars, simVars, restVars>>

PairIdle ==
  /\ pairPc = "idle"
  /\ argD = NaN /\ argR = NaN
  /\ pair = null
  /\ components = <<>>
  /\ combined = null

ProbIdle ==
  /\ probPc = "idle"
  /\ m1 = NaN /\ m2 = NaN
  /\ pD1 = -1 /\ pD2 = -1
  /\ idx1 = -1 /\ idx2 = -1
  /\ fast1 = -1 /\ fast2 = -1

NoModel == [combinedPair |-> null, winProb |-> [pD |-> -1, pR |-> -1]]

NoInline ==
  [gbPair |-> null, pollPair |-> null, indPair |-> null, w |-> NaN,
   comb |-> null, margin |-> NaN]

SeatBlank ==
  /\ comps = <<>>
  /\ model = NoModel
  /\ inline = NoInline

SeatIdle ==
  /\ seatPc = "idle"
  /\ seatGb = null /\ seatRatio = null /\ seatPoll = null
  /\ seatDayPoll = null /\ seatInd = null
  /\ SeatBlank

NoOutput ==
  [pDem |-> -1, pRep |-> -1, expectedDSeats |-> -1, sims |-> 0,
   perState |-> <<>>, seatDistribution |-> <<>>]

SimBlank ==
  /\ margins = <<>>
  /\ day = 0 /\ simNo = 0
  /\ swing = NaN
  /\ pUsed = <<>>
  /\ dSeats = 0
  /\ isDemCtrl = FALSE
  /\ demControl = 0 /\ sumDSeats = 0
  /\ seatSamples = <<>>
  /\ stateDemWins = <<>>
  /\ results = <<>>
  /\ perStateResults = <<>>
  /\ output = NoOutput
  /\ draws = [swing |-> 0, seat |-> 0]

SimIdle ==
  /\ simPc = "idle"
  /\ runKind = "none" /\ modeKey = "none"
  /\ DATA = [ratios |-> <<>>, polls |-> <<>>, gb |-> null]
  /\ STATE_POLL_DATA = <<>>
  /\ gbSeries = <<>>
  /\ cachedIndNat = null
  /\ swingRange = 0
  /\ SimBlank

RestIdle == CompIdle /\ HybridIdle /\ ConfigIdle /\ TableIdle /\ PollIdle /\ GbIdle /\ DistIdle /\ HistIdle /\ FetchIdle /\ RangeIdle

exceptCompVars ==
  <<pairVars, probVars, seatVars, simVars, hybridVars, cfgVars, tableVars, pollVars, gbVars, distVars, histVars, fetchVars, rangeVars>>

ExceptCompIdle ==
  PairIdle /\ ProbIdle /\ SeatIdle /\ SimIdle /\ HybridIdle /\ ConfigIdle /\ TableIdle /\ PollIdle /\ GbIdle /\ DistIdle /\ HistIdle /\ FetchIdle /\ RangeIdle

exceptHybridVars ==
  <<pairVars, probVars, seatVars, simVars, compVars, cfgVars, tableVars, pollVars, gbVars, distVars, histVars, fetchVars, rangeVars>>

ExceptHybridIdle ==
  PairIdle /\ ProbIdle /\ SeatIdle /\ SimIdle /\ CompIdle /\ ConfigIdle /\ TableIdle /\ PollIdle /\ GbIdle /\ DistIdle /\ HistIdle /\ FetchIdle /\ RangeIdle

exceptConfigVars ==
  <<pairVars, probVars, seatVars, simVars, compVars, hybridVars, tableVars, pollVars, gbVars, distVars, histVars, fetchVars, rangeVars>>

ExceptConfigIdle ==
  PairIdle /\ ProbIdle /\ SeatIdle /\ SimIdle /\ CompIdle /\ HybridIdle /\ TableIdle /\ PollIdle /\ GbIdle /\ DistIdle /\ HistIdle /\ FetchIdle /\ RangeIdle

exceptTableVars ==
  <<pairVars, probVars, seatVars, simVars, compVars, hybridVars, cfgVars, pollVars, gbVars, distVars, histVars, fetchVars, rangeVars>>

ExceptTableIdle ==
  PairIdle /\ ProbIdle /\ SeatIdle /\ SimIdle /\ CompIdle /\ HybridIdle /\ ConfigIdle /\ PollIdle /\ GbIdle /\ DistIdle /\ HistIdle /\ FetchIdle /\ RangeIdle

exceptPollVars ==
  <<pairVars, probVars, seatVars, simVars, compVars, hybridVars, cfgVars, tableVars, gbVars, distVars, histVars, fetchVars, rangeVars>>

ExceptPollIdle ==
  PairIdle /\ ProbIdle /\ SeatIdle /\ SimIdle /\ CompIdle /\ HybridIdle /\ ConfigIdle /\ TableIdle /\ GbIdle /\ DistIdle /\ HistIdle /\ FetchIdle /\ RangeIdle

exceptGbVars ==
  <<pairVars, probVars, seatVars, simVars, compVars, hybridVars, cfgVars, tableVars, pollVars, distVars, histVars, fetchVars, rangeVars>>

ExceptGbIdle ==
  PairIdle /\ ProbIdle /\ SeatIdle /\ SimIdle /\ CompIdle /\ HybridIdle /\ ConfigIdle /\ TableIdle /\ PollIdle /\ DistIdle /\ HistIdle /\ FetchIdle /\ RangeIdle

exceptDistVars ==
  <<pairVars, probVars, seatVars, simVars, compVars, hybridVars, cfgVars, tableVars, pollVars, gbVars, histVars, fetchVars, rangeVars>>

ExceptDistIdle ==
  PairIdle /\ ProbIdle /\ SeatIdle /\ SimIdle /\ CompIdle /\ HybridIdle /\ ConfigIdle /\ TableIdle /\ PollIdle /\ GbIdle /\ HistIdle /\ FetchIdle /\ RangeIdle

exceptHistVars ==
  <<pairVars, probVars, seatVars, simVars, compVars, hybridVars, cfgVars, tableVars, pollVars, gbVars, distVars, fetchVars, rangeVars>>

ExceptHistIdle ==
  PairIdle /\ ProbIdle /\ SeatIdle /\ SimIdle /\ CompIdle /\ HybridIdle /\ ConfigIdle /\ TableIdle /\ PollIdle /\ GbIdle /\ DistIdle /\ FetchIdle /\ RangeIdle

exceptFetchVars ==
  <<pairVars, probVars, seatVars, simVars, compVars, hybridVars, cfgVars, tableVars, pollVars, gbVars, distVars, histVars, rangeVars>>

ExceptFetchIdle ==
  PairIdle /\ ProbIdle /\ SeatIdle /\ SimIdle /\ CompIdle /\ HybridIdle /\ ConfigIdle /\ TableIdle /\ PollIdle /\ GbIdle /\ DistIdle /\ HistIdle /\ RangeIdle

exceptRangeVars ==
  <<pairVars, probVars, seatVars, simVars, compVars, hybridVars, cfgVars, tableVars, pollVars, gbVars, distVars, histVars, fetchVars>>

ExceptRangeIdle ==
  PairIdle /\ ProbIdle /\ SeatIdle /\ SimIdle /\ CompIdle /\ HybridIdle /\ ConfigIdle /\ TableIdle /\ PollIdle /\ GbIdle /\ DistIdle /\ HistIdle /\ FetchIdle

(* ------------------------------------------------------------------ *)
(* Specification of the pair arithmetic                                *)
(* ------------------------------------------------------------------ *)

\* Share values handed to normalizePair: the loaders keep any finite number,
\* and products and medians can be NaN or infinite.
ShareInputs ==
  {NaN, PosInf, NegInf} \cup {Num(i) : i \in {-10, -1, 0, 1, 2, 3, 7, 45, 55}}

\* Weights of a component: the configured ones, zero, and unusable ones.
WeightInputs == {Num(0), Num(15), Num(35), Num(50), Num(-5), NaN}

NullComp == [nul |-> TRUE, pair |-> null, w |-> NaN]

\* What one slot of the components array can hold, given a pair.
SlotsOf(p) ==
  {NullComp} \cup {Comp(null, w) : w \in {Num(0), Num(50)}}
    \cup {Comp(p, w) : w \in WeightInputs}

PairInit ==
  /\ pairPc = "start"
  /\ argD \in ShareInputs
  /\ argR \in ShareInputs
  /\ pair = null
  /\ components = <<>>
  /\ combined = null
  /\ ProbIdle /\ SeatIdle /\ SimIdle /\ RestIdle

\* normalizePair(argD, argR)
NormalizeStep ==
  /\ pairPc = "start"
  /\ pair' = normalizePair(argD, argR)
  /\ pairPc' = "normalized"
  /\ UNCHANGED <<argD, argR, components, combined, probVars, seatVars, simVars, restVars>>

\* weightedCombine(components) on an array built around the pair
CombineStep ==
  /\ pairPc = "normalized"
  /\ \E c1 \in SlotsOf(pair), c2 \in SlotsOf(pair), c3 \in SlotsOf(Neutral) :
       /\ components' = <<c1, c2, c3>>
       /\ combined' = weightedCombine(<<c1, c2, c3>>)
  /\ pairPc' = "combined"
  /\ UNCHANGED <<argD, argR, pair, probVars, seatVars, simVars, restVars>>

PairNext == NormalizeStep \/ CombineStep

SpecPair == PairInit /\ [][PairNext]_vars

(* ------------------------------------------------------------------ *)
(* Properties of the pair arithmetic                                   *)
(* ------------------------------------------------------------------ *)

\* |x - y| * 2^PREC <= ulps * scale, for finite x, y and an integer scale >= 0
\* given as a finite number: x and y agree to within ulps units of relative
\* rounding error 2^-PREC of scale.
Within(x, y, ulps, scale) ==
  Abs(x.n * y.d - y.n * x.d) * Pow2(PREC) * scale.d
    <= ulps * Abs(scale.n) * x.d * y.d

AbsNum(x) == [k |-> "fin", n |-> Abs(x.n), d |-> x.d]

\* D + R, exactly
ExactSum(p) == Rat(p.D.n * p.R.d + p.R.n * p.D.d, p.D.d * p.R.d)

\* The shares of p sum to 100 up to the rounding of the four operations of
\* normalizePair.
SumsTo100(p) ==
  /\ isFinite(p.D) /\ isFinite(p.R)
  /\ Within(ExactSum(p), Num(100), 4, ExactSum(Pair(AbsNum(p.D), AbsNum(p.R))))

ShareInRange(x) == isFinite(x) /\ RLe(Num(0), x) /\ RLe(x, Num(100))

\* C1: normalizePair returns a pair whose shares sum to 100, or the neutral
\* pair 50/50 whenever the inputs are degenerate or non-positive (non-finite
\* sum, sum <= 0, or a non-positive component); every returned share lies in
\* [0, 100].
C1_NormalizePairRange ==
  pairPc = "normalized" =>
    LET s == JAdd(argD, argR)
        degenerate ==
          \/ ~isFinite(s) \/ JLe(s, Num(0))
          \/ JLe(argD, Num(0)) \/ JLe(argR, Num(0))
    IN  /\ pair = Neutral \/ SumsTo100(pair)
        /\ degenerate => pair = Neutral
        /\ ShareInRange(pair.D) /\ ShareInRange(pair.R)

\* The components weightedCombine does not skip.
UsableComps == {k \in DOMAIN components : ~CompSkipped(components[k])}

TheUsablePair == components[CHOOSE k \in UsableComps : TRUE].pair

NonNegPair(p) ==
  /\ isFinite(p.D) /\ isFinite(p.R) /\ p.D.n >= 0 /\ p.R.n >= 0

\* C3 (amended): with exactly one component that has a pair and a positive
\* weight, weightedCombine returns that component's pair up to rounding (each
\* share within 16 units of relative rounding error of the pair's share, for
\* a pair of non-negative shares); with every weight zero or every pair
\* absent it returns exactly 50/50.
C3_SingleSignalWithinRounding ==
  pairPc = "combined" =>
    /\ (Cardinality(UsableComps) = 1 /\ NonNegPair(TheUsablePair)) =>
         /\ isFinite(combined.D) /\ isFinite(combined.R)
         /\ Within(combined.D, TheUsablePair.D, 16, TheUsablePair.D)
         /\ Within(combined.R, TheUsablePair.R, 16, TheUsablePair.R)
    /\ UsableComps = {} => combined = Neutral

\* C3 as stated: with exactly one usable component the result is that
\* component's pair exactly (asked only of pairs of non-negative shares).
C3_SingleSignalExact ==
  pairPc = "combined" =>
    /\ (Cardinality(UsableComps) = 1 /\ NonNegPair(TheUsablePair)) =>
         combined = TheUsablePair
    /\ UsableComps = {} => combined = Neutral

\* C3 witness: one usable component with an uneven pair, next to a component
\* without a pair whose weight is positive.
C3_Witness ==
  /\ pairPc = "combined"
  /\ Cardinality(UsableComps) = 1
  /\ NonNegPair(TheUsablePair)
  /\ TheUsablePair.D # TheUsablePair.R
  /\ \E k \in DOMAIN components :
       ~components[k].nul /\ components[k].pair.nul
         /\ JLt(Num(0), components[k].w)

(* ------------------------------------------------------------------ *)
(* Specification of the probability model                              *)
(* ------------------------------------------------------------------ *)

\* Margins: non-finite ones, the table's ends and middle, margins that
\* fall half-way between two table entries, and margins past the ends.
MarginInputs ==
  {NaN, PosInf, NegInf}
    \cup {Num(i) : i \in {-1000, -45, -41, -40, -7, -1, 0, 1, 7, 40, 41, 45, 1000}}
    \cup {Rat(i, 20) : i \in {-801, -799, -3, -2, -1, 1, 2, 3, 799, 801}}

ProbInit ==
  /\ probPc = "start"
  /\ m1 \in MarginInputs
  /\ m2 \in MarginInputs
  /\ pD1 = -1 /\ pD2 = -1
  /\ idx1 = -1 /\ idx2 = -1
  /\ fast1 = -1 /\ fast2 = -1
  /\ PairIdle /\ SeatIdle /\ SimIdle /\ RestIdle

\* winProbFromMargin on both margins.  Its callers pass finite margins only
\* (the table loop, and marginRD of a normalized pair).
ExactStep ==
  /\ probPc = "start"
  /\ isFinite(m1) /\ isFinite(m2)
  /\ pD1' = winProbFromMargin(m1).pD
  /\ pD2' = winProbFromMargin(m2).pD
  /\ probPc' = "exact"
  /\ UNCHANGED <<m1, m2, idx1, idx2, fast1, fast2, pairVars, seatVars, simVars, restVars>>

\* The index winProbD_fast computes for m, -1 when it returns before.
fastIndex(m) == IF isFinite(m) THEN tableIndex(clampMargin(m)) ELSE -1

\* winProbD_fast on both margins
FastStep ==
  /\ probPc \in {"start", "exact"}
  /\ fast1' = winProbD_fast(m1)
  /\ fast2' = winProbD_fast(m2)
  /\ idx1' = fastIndex(m1)
  /\ idx2' = fastIndex(m2)
  /\ probPc' = "fast"
  /\ UNCHANGED <<m1, m2, pD1, pD2, pairVars, seatVars, simVars, restVars>>

ProbNext == ExactStep \/ FastStep

SpecProb == ProbInit /\ [][ProbNext]_vars

(* ------------------------------------------------------------------ *)
(* Properties of the probability model                                 *)
(* ------------------------------------------------------------------ *)

\* The win probability does not rise with the margin, for
\* winProbFromMargin and for the table lookup.
ProbMonotone ==
  /\ (pD1 >= 0 /\ pD2 >= 0 /\ RLt(m1, m2)) => pD1 >= pD2
  /\ (probPc = "fast" /\ isFinite(m1) /\ isFinite(m2) /\ RLt(m1, m2)) =>
       fast1 >= fast2

\* C4: for all finite margins m1 < m2 the win probability returned for m1
\* is >= the one returned for m2, for winProbFromMargin(m).pD and for
\* winProbD_fast, and the win probability at margin 0 is exactly 0.5.
C4_MonotoneAndHalfAtZero ==
  /\ ProbMonotone
  /\ (pD1 >= 0 /\ m1 = Num(0)) => pD1 = Half
  /\ (probPc = "fast" /\ m1 = Num(0)) => fast1 = Half

\* C5: winProbD_fast is total: a non-finite margin gives exactly 0.5, a
\* finite margin outside [-40, 40] gives the value of the nearest table
\* end, and for every finite margin the index lies in 0..WINP_N-1 and the
\* result in [0, 1].
C5_FastLookupTotal ==
  probPc = "fast" =>
    /\ ~isFinite(m1) => fast1 = Half /\ idx1 = -1
    /\ (isFinite(m1) /\ RLt(m1, Num(WINP_MIN))) => fast1 = WINP_PD_TABLE[0]
    /\ (isFinite(m1) /\ RLt(Num(WINP_MAX), m1)) =>
         fast1 = WINP_PD_TABLE[WINP_N - 1]
    /\ isFinite(m1) =>
         /\ idx1 \in 0..(WINP_N - 1)
         /\ fast1 = WINP_PD_TABLE[idx1]
         /\ 0 <= fast1 /\ fast1 <= Nano

\* C5 witness: the lookup has run on a margin past the upper end of the
\* table, next to a non-finite one.
C5_Witness ==
  /\ probPc = "fast"
  /\ isFinite(m1) /\ RLt(Num(WINP_MAX), m1)
  /\ fast1 = WINP_PD_TABLE[WINP_N - 1]
  /\ ~isFinite(m2) /\ fast2 = Half

(* ------------------------------------------------------------------ *)
(* Specification of the seat model                                     *)
(* ------------------------------------------------------------------ *)

\* Polls of a seat: none, an ordinary one, and one whose shares are both
\* zero (the loaders keep every poll with finite shares).
PollInputs == {null, Pair(Num(48), Num(46)), Pair(Num(0), Num(0))}

\* The day's window means of the seat: no dated poll yet (NaN, NaN), an
\* ordinary mean, and the mean of polls whose shares are zero.
DayPollInputs == {Pair(NaN, NaN), Pair(Num(47), Num(45)), Pair(Num(0), Num(0))}

SeatInit ==
  /\ seatPc = "start"
  /\ seatGb \in {null, Pair(Num(52), Num(48))}
  /\ seatRatio \in {Even, LeanD, Pair(Rat(9, 10), Rat(11, 10))}
  /\ seatPoll \in PollInputs
  /\ seatDayPoll \in DayPollInputs
  /\ seatInd \in {null, Pair(Num(51), Num(49))}
  /\ SeatBlank
  /\ PairIdle /\ ProbIdle /\ SimIdle /\ RestIdle

\* getStateModel(modeKey, st, cachedIndNat)
GetStateModelStep ==
  /\ seatPc = "start"
  /\ comps' = stateComponents(seatGb, seatRatio, seatPoll, seatInd)
  /\ model' = getStateModel(seatGb, seatRatio, seatPoll, seatInd)
  /\ seatPc' = "state"
  /\ UNCHANGED <<seatGb, seatRatio, seatPoll, seatDayPoll, seatInd, inline,
                 pairVars, probVars, simVars, restVars>>

\* The seat's pass through the margin loop of runOddsOverTimeState for one
\* day; the series is loaded from polls, so the day's generic ballot is there.
InlineCombineStep ==
  /\ seatPc = "start"
  /\ LET gb == IF seatGb.nul THEN Pair(Num(50), Num(50)) ELSE seatGb
     IN  inline' = inlineCombine(
           gb.D, gb.R, seatRatio.D, seatRatio.R,
           seatDayPoll.D, seatDayPoll.R,
           IF seatPoll.nul THEN NaN ELSE seatPoll.D,
           IF seatPoll.nul THEN NaN ELSE seatPoll.R,
           IF seatInd.nul THEN NaN ELSE seatInd.D,
           IF seatInd.nul THEN NaN ELSE seatInd.R)
  /\ seatPc' = "series"
  /\ UNCHANGED <<seatGb, seatRatio, seatPoll, seatDayPoll, seatInd, comps, model,
                 pairVars, probVars, simVars, restVars>>

SeatNext == GetStateModelStep \/ InlineCombineStep

SpecModel == SeatInit /\ [][SeatNext]_vars

(* ------------------------------------------------------------------ *)
(* Properties of the seat model                                        *)
(* ------------------------------------------------------------------ *)

\* A poll that is absent or unusable: none, a non-finite share, or a share
\* total <= 0.
PollUnusable(p) ==
  p.nul \/ ~isFinite(p.D) \/ ~isFinite(p.R) \/ JLe(JAdd(p.D, p.R), Num(0))

\* The poll the inline combiner works with: the day's window means when both
\* are finite, else the seat's latest poll.
EffectivePoll ==
  IF isFinite(seatDayPoll.D) /\ isFinite(seatDayPoll.R) THEN seatDayPoll
  ELSE seatPoll

\* The total weight of the signals present, given whether the poll is usable.
PresentWeight(pollUsable) ==
  Num(WEIGHTS.gb + (IF pollUsable THEN WEIGHTS.polls ELSE 0)
        + (IF seatInd.nul THEN 0 ELSE WEIGHTS.ind))

\* C2: the combiner renormalizes over the signals present: in getStateModel
\* and in the inline combiner of runOddsOverTimeState, a poll that is absent
\* or unusable (no poll, a non-finite share, a share total <= 0) and an
\* absent indicator get weight 0 and no pair, never a default pair with a
\* positive weight; the total weight is that of the signals present.
C2_AbsentSignalWeighsNothing ==
  /\ seatPc = "state" =>
       /\ PollUnusable(seatPoll) => CompSkipped(comps[2])
       /\ seatInd.nul => CompSkipped(comps[3])
       /\ CombineAcc(comps, 3).W = PresentWeight(~PollUnusable(seatPoll))
  /\ seatPc = "series" =>
       /\ PollUnusable(EffectivePoll) => inline.pollPair.nul
       /\ seatInd.nul => inline.indPair.nul
       /\ inline.w = PresentWeight(~PollUnusable(EffectivePoll))

(* ------------------------------------------------------------------ *)
(* Specification of the output compaction                              *)
(* ------------------------------------------------------------------ *)

CompInit ==
  /\ compPc = "start"
  /\ \E len1 \in 0..MaxSeriesLen, spread1 \in Spreads, pattern1 \in Patterns,
        len2 \in {0, 2, MaxSeriesLen}, spread2 \in {0, 1000} :
       stateOddsMap = <<seriesOf(len1, spread1, pattern1),
                        seriesOf(len2, spread2, "shifted")>>
  /\ CompBlank
  /\ ExceptCompIdle

\* downsampleStateOdds(stateOddsMap)
DownsampleStep ==
  /\ compPc = "start"
  /\ \E below \in BOOLEAN : downsampled' = downsampleStateOdds(stateOddsMap, below)
  /\ compPc' = "downsampled"
  /\ UNCHANGED <<stateOddsMap, encoded>>
  /\ UNCHANGED exceptCompVars

\* encodeStateOddsColumnar(downsampleStateOdds(stateOddsMap))
EncodeStep ==
  /\ compPc = "downsampled"
  /\ encoded' = encodeStateOddsColumnar(downsampled)
  /\ compPc' = "encoded"
  /\ UNCHANGED <<stateOddsMap, downsampled>>
  /\ UNCHANGED exceptCompVars

CompNext == DownsampleStep \/ EncodeStep

SpecCompact == CompInit /\ [][CompNext]_vars

(* ------------------------------------------------------------------ *)
(* Properties of the output compaction                                 *)
(* ------------------------------------------------------------------ *)

\* C11: downsampleStateOdds makes no series longer, and of every series of
\* more than two points it keeps the first point first and the last point
\* last.
C11_DownsampleKeepsEnds ==
  compPc \in {"downsampled", "encoded"} =>
    \A k \in DOMAIN stateOddsMap :
      /\ Len(downsampled[k]) <= Len(stateOddsMap[k])
      /\ Len(stateOddsMap[k]) > 2 =>
           /\ Len(downsampled[k]) >= 1
           /\ downsampled[k][1] = stateOddsMap[k][1]
           /\ downsampled[k][Len(downsampled[k])] =
                stateOddsMap[k][Len(stateOddsMap[k])]

\* C11 witness: a series of more than eight points was thinned to its
\* first, its eighth and its last point.
C11_Witness ==
  /\ compPc = "downsampled"
  /\ \E k \in DOMAIN stateOddsMap :
       /\ Len(stateOddsMap[k]) > 8
       /\ Len(downsampled[k]) = 3
       /\ downsampled[k][2] = stateOddsMap[k][8]
       /\ downsampled[k][3] = stateOddsMap[k][Len(stateOddsMap[k])]

\* The points an encoded series stands for: point k of a dense series has
\* the date dates[s + k], point k of a sparse series the date dates[i[k]].
decodeSeries(dates, enc) ==
  [e \in DOMAIN enc.p |->
     [date |-> IF enc.form = "dense" THEN dates[(enc.s + (e - 1)) + 1]
               ELSE dates[enc.i[e] + 1],
      pDem |-> enc.p[e],
      margin |-> enc.m[e]]]

\* C12: decoding what encodeStateOddsColumnar stored for a key gives back
\* the key's series point by point, whether it was stored dense or sparse,
\* for empty series, repeated dates and dates out of order too.
C12_ColumnarRoundTrip ==
  compPc = "encoded" =>
    /\ DOMAIN encoded.states = DOMAIN downsampled
    /\ \A k \in DOMAIN downsampled :
         /\ Len(encoded.states[k].p) = Len(downsampled[k])
         /\ Len(encoded.states[k].m) = Len(downsampled[k])
         /\ encoded.states[k].form = "sparse" =>
              Len(encoded.states[k].i) = Len(downsampled[k])
         /\ \A e \in DOMAIN encoded.states[k].p :
              IF encoded.states[k].form = "dense"
              THEN encoded.states[k].s + (e - 1) + 1 \in DOMAIN encoded.dates
              ELSE encoded.states[k].i[e] + 1 \in DOMAIN encoded.dates
         /\ decodeSeries(encoded.dates, encoded.states[k]) = downsampled[k]

\* C12 witness: one series was stored dense, not from the first date, and
\* another sparse with a repeated date in it.
C12_Witness ==
  /\ compPc = "encoded"
  /\ encoded.states[2].form = "dense"
  /\ encoded.states[2].s > 0
  /\ Len(encoded.states[2].p) > 2
  /\ encoded.states[1].form = "sparse"
  /\ \E e \in DOMAIN encoded.states[1].i :
       e > 1 /\ encoded.states[1].i[e] = encoded.states[1].i[e - 1]

(* ------------------------------------------------------------------ *)
(* Specification of the simulators                                     *)
(* ------------------------------------------------------------------ *)

rules == SEAT_RULES[modeKey]

SimInit ==
  /\ simPc = "boot"
  /\ winpTable = newTable
  /\ runKind = "none" /\ modeKey = "none"
  /\ DATA = [ratios |-> <<>>, polls |-> <<>>, gb |-> null]
  /\ STATE_POLL_DATA = <<>>
  /\ gbSeries = <<>>
  /\ cachedIndNat = null
  /\ swingRange = 0
  /\ SimBlank
  /\ PairIdle /\ ProbIdle /\ SeatIdle
  /\ CompIdle /\ HybridIdle /\ ConfigIdle /\ PollIdle /\ GbIdle /\ DistIdle /\ HistIdle /\ FetchIdle /\ RangeIdle

\* A current-day simulator up to its trial loop
CurrentStart ==
  /\ simPc = "start" /\ runKind = "current"
  /\ margins' = currentMargins(modeKey, DATA, cachedIndNat)
  /\ demControl' = 0
  /\ seatSamples' = <<>>
  /\ stateDemWins' = [j \in 1..upSeatsOf(rules) |-> 0]
  /\ simNo' = 0
  /\ simPc' = "swing"
  /\ UNCHANGED <<inputVars, day, swing, pUsed, dSeats, isDemCtrl, sumDSeats,
                 results, perStateResults, output, draws,
                 pairVars, probVars, seatVars, restVars>>

\* runOddsOverTimeState up to its loop over the days
SeriesStart ==
  /\ simPc = "start" /\ runKind = "series"
  /\ margins' = [j \in DOMAIN DATA.ratios |-> Num(0)]
  /\ results' = <<>>
  /\ perStateResults' = [j \in DOMAIN DATA.ratios |-> <<>>]
  /\ day' = 0
  /\ simPc' = IF Len(gbSeries) > 0 THEN "day" ELSE "done"
  /\ UNCHANGED <<inputVars, simNo, swing, pUsed, dSeats, isDemCtrl, demControl,
                 sumDSeats, seatSamples, stateDemWins, output, draws,
                 pairVars, probVars, seatVars, restVars>>

\* A day that stores its generic ballot in DATA, where the model of a seat
\* of the current day reads it.
SeriesDaySettingGb ==
  /\ simPc = "day"
  /\ DATA' = [DATA EXCEPT !.gb = normalizePair(gbSeries[day + 1].dem,
                                                gbSeries[day + 1].rep)]
  /\ margins' = seriesMargins(DATA, STATE_POLL_DATA, gbSeries, cachedIndNat, day + 1)
  /\ demControl' = 0
  /\ sumDSeats' = 0
  /\ stateDemWins' = [j \in DOMAIN DATA.ratios |-> 0]
  /\ simNo' = 0
  /\ simPc' = "swing"
  /\ UNCHANGED <<runKind, modeKey, STATE_POLL_DATA, gbSeries, cachedIndNat,
                 swingRange, day, swing, pUsed, dSeats, isDemCtrl, seatSamples,
                 results, perStateResults, output, draws,
                 pairVars, probVars, seatVars, restVars>>

\* The margins of the day
SeriesDay ==
  /\ simPc = "day"
  /\ margins' = seriesMargins(DATA, STATE_POLL_DATA, gbSeries, cachedIndNat, day + 1)
  /\ demControl' = 0
  /\ sumDSeats' = 0
  /\ stateDemWins' = [j \in DOMAIN DATA.ratios |-> 0]
  /\ simNo' = 0
  /\ simPc' = "swing"
  /\ UNCHANGED <<inputVars, day, swing, pUsed, dSeats, isDemCtrl, seatSamples,
                 results, perStateResults, output, draws,
                 pairVars, probVars, seatVars, restVars>>

\* The first statement of a trial
DrawSwing ==
  /\ simPc = "swing"
  /\ \E u \in SwingDraws : swing' = swingOf(u, swingRange)
  /\ draws' = [draws EXCEPT !.swing = @ + 1]
  /\ simPc' = "seats"
  /\ UNCHANGED <<inputVars, margins, day, simNo, pUsed, dSeats, isDemCtrl,
                 demControl, sumDSeats, seatSamples, stateDemWins, results,
                 perStateResults, output, pairVars, probVars, seatVars, restVars>>

\* The pD of every seat in the trial: winProbD_fast(margins[i] + swing)
trialProbs == [j \in DOMAIN margins |-> seatWinProb(margins[j], swing)]

\* The seat loop of a trial, p the pD of every seat and won the seats whose
\* draw fell below it.
SeatLoop(p, won) ==
  /\ pUsed' = p
  /\ stateDemWins' =
       [j \in DOMAIN stateDemWins |->
          stateDemWins[j] + (IF j \in won THEN 1 ELSE 0)]
  /\ dSeats' = rules.baseD + Cardinality(won)
  /\ draws' = [draws EXCEPT !.seat = @ + Len(margins)]
  /\ simNo' = simNo + 1

\* The outcomes of the seat loop: D wins the seats the draws always give to
\* D and any of the seats the draws can give either way.
SeatLoopTaken ==
  \E p \in {trialProbs} :
    \E won \in {SureSeats(p) \cup open : open \in SUBSET OpenSeats(p)} :
      SeatLoop(p, won)

\* The rest of a trial of a current-day simulator
CurrentTrial ==
  /\ simPc = "seats" /\ runKind = "current"
  /\ SeatLoopTaken
  /\ seatSamples' = Append(seatSamples, Int16(dSeats'))
  /\ isDemCtrl' = demControlCurrent(modeKey, dSeats')
  /\ demControl' = demControl + (IF isDemCtrl' THEN 1 ELSE 0)
  /\ simPc' = IF simNo + 1 < NUM_SIMS THEN "swing" ELSE "finish"
  /\ UNCHANGED <<inputVars, margins, day, swing, sumDSeats, results,
                 perStateResults, output, pairVars, probVars, seatVars, restVars>>

\* The rest of a trial of runOddsOverTimeState
SeriesTrial ==
  /\ simPc = "seats" /\ runKind = "series"
  /\ SeatLoopTaken
  /\ sumDSeats' = sumDSeats + dSeats'
  /\ isDemCtrl' = demControlSeries(modeKey, dSeats')
  /\ demControl' = demControl + (IF isDemCtrl' THEN 1 ELSE 0)
  /\ simPc' = IF simNo + 1 < NUM_SIMS THEN "swing" ELSE "dayEnd"
  /\ UNCHANGED <<inputVars, margins, day, swing, seatSamples, results,
                 perStateResults, output, pairVars, probVars, seatVars, restVars>>

\* A current-day simulator after its trial loop
Finish ==
  /\ simPc = "finish"
  /\ output' =
       [pDem |-> toFixedRatio(demControl, NUM_SIMS, 4),
        pRep |-> toFixedRatio(NUM_SIMS - demControl, NUM_SIMS, 4),
        expectedDSeats |->
          toFixedRatio(SumSeq(seatSamples, Len(seatSamples)), NUM_SIMS, 1),
        sims |-> NUM_SIMS,
        perState |-> currentPerState(modeKey, DATA, cachedIndNat, stateDemWins),
        seatDistribution |-> buildSeatHistogram(seatSamples, modeKey)]
  /\ simPc' = "done"
  /\ UNCHANGED <<inputVars, margins, day, simNo, swing, pUsed, dSeats, isDemCtrl,
                 demControl, sumDSeats, seatSamples, stateDemWins, results,
                 perStateResults, draws, pairVars, probVars, seatVars, restVars>>

\* The end of a day of runOddsOverTimeState
SeriesDayEnd ==
  /\ simPc = "dayEnd"
  /\ results' = Append(results,
       [date |-> dateStrOf(gbSeries, day),
        pDem |-> toFixedRatio(demControl, NUM_SIMS, 4),
        expDem |-> toFixedRatio(sumDSeats, NUM_SIMS, 1)])
  /\ perStateResults' =
       [j \in DOMAIN perStateResults |->
          Append(perStateResults[j],
            [date |-> dateStrOf(gbSeries, day),
             pDem |-> toFixedRatio(stateDemWins[j], NUM_SIMS, 4),
             margin |-> toFixed2(margins[j])])]
  /\ day' = day + 1
  /\ simNo' = 0
  /\ simPc' = IF day + 1 < Len(gbSeries) THEN "day" ELSE "done"
  /\ UNCHANGED <<inputVars, margins, swing, pUsed, dSeats, isDemCtrl, demControl,
                 sumDSeats, seatSamples, stateDemWins, output, draws,
                 pairVars, probVars, seatVars, restVars>>

\* The loop that fills WINP_PD_TABLE when the module is loaded.
BuildTable ==
  /\ simPc = "boot"
  /\ winpTable' = WINP_PD_TABLE
  /\ simPc' = "load"
  /\ UNCHANGED <<inputVars, margins, day, simNo, swing, pUsed, dSeats, isDemCtrl,
                 demControl, sumDSeats, seatSamples, stateDemWins, results,
                 perStateResults, output, draws, pairVars, probVars, seatVars>>
  /\ UNCHANGED restExceptTableVars

\* The loading of the input files in main, and the choice of the function
\* that is followed.
LoadData ==
  /\ simPc = "load"
  /\ \E sc \in Scenarios :
     \E days \in SeriesLengths(sc.run) :
       /\ runKind' = sc.run
       /\ modeKey' = sc.mode
       /\ gbSeries' = gbSeriesOf(days)
       /\ DATA' = dataOf(sc, gbSeriesOf(days))
       /\ STATE_POLL_DATA' = statePollsOf(sc)
       /\ cachedIndNat' =
            IF sc.mode = "house" THEN null
            ELSE computeIndicatorNationalFromPolls(dataOf(sc, gbSeriesOf(days)))
       /\ swingRange' \in
            IF sc.run \in {"current", "series"}
            THEN {0, configuredRange(sc.run, sc.mode)}
            ELSE {configuredRange(sc.run, sc.mode)}
  /\ simPc' = "start"
  /\ UNCHANGED <<margins, day, simNo, swing, pUsed, dSeats, isDemCtrl,
                 demControl, sumDSeats, seatSamples, stateDemWins, results,
                 perStateResults, output, draws, pairVars, probVars, seatVars,
                 restVars>>

(* ------------------------------------------------------------------ *)
(* The time series of the house and the compaction of the per-seat     *)
(* series, as further steps of the simulators                          *)
(* ------------------------------------------------------------------ *)

\* runOddsOverTimeHouse up to its loop over the days
HybridStart ==
  /\ simPc = "start" /\ runKind = "hybrid"
  /\ results' = <<>>
  /\ day' = 0
  /\ simPc' = IF Len(gbSeries) > 0 THEN "hyDay" ELSE "done"
  /\ UNCHANGED <<inputVars, margins, simNo, swing, pUsed, dSeats, isDemCtrl,
                 demControl, sumDSeats, seatSamples, stateDemWins,
                 perStateResults, output, draws,
                 pairVars, probVars, seatVars, restVars>>

\* The margins of the day
HybridDay ==
  /\ simPc = "hyDay"
  /\ margins' = houseSeriesMargins(DATA, gbSeries, day + 1)
  /\ demControl' = 0
  /\ sumDSeats' = 0
  /\ hyNo' = 0
  /\ simPc' = "hyTrial"
  /\ UNCHANGED <<inputVars, day, simNo, swing, pUsed, dSeats, isDemCtrl,
                 seatSamples, stateDemWins, results, perStateResults, output,
                 draws, hyJ, hySeats, hyWin, districtKeys, failure,
                 pairVars, probVars, seatVars, restExceptHybridVars>>

\* One trial of runOddsOverTimeHouse
HybridTrial ==
  /\ simPc = "hyTrial"
  /\ \E dr \in HybridDraws :
       /\ hyJ' = gridIndexOf(dr.u, Len(swingGrid(swingRange)))
       /\ hySeats' = hybridSeats(margins, swingGrid(swingRange)[hyJ' + 1], dr.z)
  /\ sumDSeats' = sumDSeats + hySeats'
  /\ hyWin' = (hySeats' >= SEAT_RULES.house.majorityLine)
  /\ demControl' = demControl + (IF hyWin' THEN 1 ELSE 0)
  /\ hyNo' = hyNo + 1
  /\ simPc' = IF hyNo + 1 < NUM_SIMS THEN "hyTrial" ELSE "hyDayEnd"
  /\ UNCHANGED <<inputVars, margins, day, simNo, swing, pUsed, dSeats, isDemCtrl,
                 seatSamples, stateDemWins, results, perStateResults, output,
                 draws, districtKeys, failure,
                 pairVars, probVars, seatVars, restExceptHybridVars>>

\* The end of a day of runOddsOverTimeHouse
HybridDayEnd ==
  /\ simPc = "hyDayEnd"
  /\ results' = Append(results,
       [date |-> dateStrOf(gbSeries, day),
        pDem |-> toFixedRatio(demControl, NUM_SIMS, 4),
        expDem |-> toFixedRatio(sumDSeats, NUM_SIMS, 1)])
  /\ day' = day + 1
  /\ simPc' = IF day + 1 < Len(gbSeries) THEN "hyDay" ELSE "done"
  /\ UNCHANGED <<inputVars, margins, simNo, swing, pUsed, dSeats, isDemCtrl,
                 demControl, sumDSeats, seatSamples, stateDemWins,
                 perStateResults, output, draws,
                 pairVars, probVars, seatVars, restVars>>

\* computeHouseDistrictOddsOverTime(gbSeries)
DistrictsRun ==
  /\ simPc = "start" /\ runKind = "districts"
  /\ \E r \in {districtOdds(DATA, gbSeries)} :
       /\ failure' = r.failure
       /\ districtKeys' = r.keys
       /\ perStateResults' = r.odds
  /\ simPc' = "done"
  /\ UNCHANGED <<inputVars, margins, day, simNo, swing, pUsed, dSeats, isDemCtrl,
                 demControl, sumDSeats, seatSamples, stateDemWins, results,
                 output, draws, hyNo, hyJ, hySeats, hyWin,
                 pairVars, probVars, seatVars, restExceptHybridVars>>

\* main hands the per-seat series of runOddsOverTimeState, or of
\* computeHouseDistrictOddsOverTime, to downsampleStateOdds
CompactStart ==
  /\ simPc = "done" /\ runKind \in {"series", "districts"}
  /\ failure = "none"
  /\ compPc = "idle"
  /\ stateOddsMap' = perStateResults
  /\ compPc' = "start"
  /\ UNCHANGED <<simVars, downsampled, encoded,
                 pairVars, probVars, seatVars, restExceptCompVars>>

SimNext ==
  \/ CurrentStart
  \/ SeriesStart
  \/ SeriesDay
  \/ DrawSwing
  \/ CurrentTrial
  \/ SeriesTrial
  \/ Finish
  \/ SeriesDayEnd
  \/ BuildTable
  \/ LoadData
  \/ HybridStart
  \/ HybridDay
  \/ HybridTrial
  \/ HybridDayEnd
  \/ DistrictsRun
  \/ CompactStart
  \/ DownsampleStep
  \/ EncodeStep

SpecSim == SimInit /\ [][SimNext]_vars

(* ------------------------------------------------------------------ *)
(* Properties of the simulators                                        *)
(* ------------------------------------------------------------------ *)

\* A trial has just ended: swing, pUsed, dSeats and isDemCtrl are those of
\* the same trial.
TrialEnded == simNo > 0 /\ simPc \in {"swing", "finish", "dayEnd", "done"}

\* C6: the counts of the seat histogram a current-day simulator returns sum
\* to the number of trials, for the binned histogram of the house and for
\* the range histograms of the senate and the governors.
C6_HistogramCountsSumToTrials ==
  (simPc = "done" /\ runKind = "current") =>
    SumSeq(output.seatDistribution.counts,
           Len(output.seatDistribution.counts)) = NUM_SIMS

\* C7: in every simulator a trial is counted as a control win for D exactly
\* when its seat total (baseD plus the seats won) is at least the control
\* threshold of the chamber.
C7_ControlExactlyAtThreshold ==
  TrialEnded => (isDemCtrl <=> dSeats >= controlLineOf(modeKey))

\* The seats of the last trial that were certain to go to D, and those that
\* could go to D at all.
CertainSeats == {j \in DOMAIN pUsed : pUsed[j] >= Nano}

PossibleSeats == {j \in DOMAIN pUsed : pUsed[j] > 0}

\* C8 (amended): with swing range 0 the swing of every trial is 0, so every
\* seat is drawn at winProbD_fast of its unperturbed margin in every trial;
\* the seat total of a trial lies between baseD plus the seats whose
\* probability is 1 and baseD plus the seats whose probability is above 0,
\* so the trials are identical, and the control probability 0 or 1, when
\* every seat's probability is 0 or 1.
C8_ZeroRangeLeavesSeatDraws ==
  (swingRange = 0 /\ TrialEnded) =>
    /\ swing = Num(0)
    /\ \A j \in DOMAIN margins : pUsed[j] = winProbD_fast(margins[j])
    /\ rules.baseD + Cardinality(CertainSeats) <= dSeats
    /\ dSeats <= rules.baseD + Cardinality(PossibleSeats)
    /\ (CertainSeats = PossibleSeats /\ simPc = "done" /\ runKind = "current") =>
         /\ \A j \in DOMAIN seatSamples : seatSamples[j] = dSeats
         /\ output.pDem \in {0, 10^4}

\* C8 as stated: with swing range 0 every trial is identical, so the control
\* probability is 0 or 1.
C8_ZeroRangeTrialsIdentical ==
  (swingRange = 0 /\ simPc = "done" /\ runKind = "current") =>
    /\ \A j, k \in DOMAIN seatSamples : seatSamples[j] = seatSamples[k]
    /\ output.pDem \in {0, 10^4}

\* C8 witness: a run with swing range 0 has ended whose trials differ, its
\* seats drawn at the probability of their unperturbed margins.
C8_Witness ==
  /\ swingRange = 0 /\ simPc = "done" /\ runKind = "current"
  /\ \E j, k \in DOMAIN seatSamples : seatSamples[j] # seatSamples[k]
  /\ \E j \in DOMAIN pUsed : pUsed[j] = Half
  /\ swing = Num(0)

\* The trials begun and ended since the simulator started.
TrialsEnded == (IF runKind = "series" THEN day * NUM_SIMS ELSE 0) + simNo

TrialsBegun == TrialsEnded + (IF simPc = "seats" THEN 1 ELSE 0)

\* C9: a trial draws one swing and adds it to the margin of every seat, and
\* every seat gets one draw at winProbD_fast(margin + swing), in the trial
\* loops of the house, senate and governor simulators and of
\* runOddsOverTimeState.
C9_OneSwingPerTrial ==
  simPc \notin {"idle", "start"} =>
    /\ draws.swing = TrialsBegun
    /\ draws.seat = TrialsEnded * Len(margins)
    /\ TrialEnded =>
         /\ Len(pUsed) = Len(margins)
         /\ \A j \in DOMAIN margins :
              pUsed[j] = winProbD_fast(JAdd(margins[j], swing))

\* C9 witness: a trial has ended whose swing is not zero and moved the
\* probability of a seat away from that of its margin.
C9_Witness ==
  /\ TrialEnded
  /\ swing # Num(0)
  /\ \E j \in DOMAIN margins : pUsed[j] # winProbD_fast(margins[j])
  /\ draws.seat = TrialsEnded * Len(margins)

\* C10: a current-day simulator simulates total - baseD - baseR seats however
\* many keys have a ratio, a seat without a key at margin 0, and every key
\* that has a ratio is in the simulated pool and in the per-seat output.
C10_FixedPoolNoSeatDropped ==
  (runKind = "current" /\ simPc # "start") =>
    /\ Len(margins) = upSeatsOf(rules)
    /\ \A j \in DOMAIN margins : j > Len(DATA.ratios) => margins[j] = Num(0)
    /\ Len(DATA.ratios) <= Len(margins)
    /\ simPc = "done" => Len(output.perState) = Len(DATA.ratios)

(* ------------------------------------------------------------------ *)
(* Properties of the encoded dates and of the chosen step              *)
(* ------------------------------------------------------------------ *)

\* The dates of the points of all series of a map
datesOfMap(map) ==
  UNION {{map[k][e].date : e \in DOMAIN map[k]} : k \in DOMAIN map}

\* Every point of a series is dated by the entry of dates that follows the
\* entry of the point before it.
onConsecutiveDates(arr, dates) ==
  \A e \in DOMAIN arr :
    e = 1 \/ \E i \in DOMAIN dates :
               /\ i + 1 \in DOMAIN dates
               /\ dates[i] = arr[e - 1].date
               /\ dates[i + 1] = arr[e].date

\* C22: in the output of encodeStateOddsColumnar, dates is the union of the
\* dates of all series, ascending and without duplicates; every stored
\* index is a position of dates; and a series is stored dense exactly when
\* it has a point and its points lie on consecutive entries of dates in
\* increasing order, otherwise with its index array.
C22_ColumnarDatesAndForms ==
  compPc = "encoded" =>
    /\ {encoded.dates[i] : i \in DOMAIN encoded.dates} = datesOfMap(downsampled)
    /\ \A i, j \in DOMAIN encoded.dates :
         i < j => encoded.dates[i] < encoded.dates[j]
    /\ \A k \in DOMAIN downsampled :
         /\ encoded.states[k].form \in {"dense", "sparse"}
         /\ encoded.states[k].form = "dense" <=>
              /\ Len(downsampled[k]) > 0
              /\ onConsecutiveDates(downsampled[k], encoded.dates)
         /\ encoded.states[k].form = "dense" =>
              /\ encoded.states[k].s \in 0..(Len(encoded.dates) - 1)
              /\ encoded.states[k].s + Len(encoded.states[k].p) - 1
                   \in 0..(Len(encoded.dates) - 1)
              /\ encoded.states[k].i = <<>>
         /\ encoded.states[k].form = "sparse" =>
              /\ Len(encoded.states[k].i) = Len(downsampled[k])
              /\ \A e \in DOMAIN encoded.states[k].i :
                   encoded.states[k].i[e] \in 0..(Len(encoded.dates) - 1)

\* C22 witness: the first series was stored with an index array that skips
\* an entry of dates, the second dense up to the last entry of dates, and
\* dates has entries of either series only.
C22_Witness ==
  /\ compPc = "encoded"
  /\ encoded.states[1].form = "sparse"
  /\ \E e \in DOMAIN encoded.states[1].i :
       e > 1 /\ encoded.states[1].i[e] > encoded.states[1].i[e - 1] + 1
  /\ encoded.states[2].form = "dense"
  /\ encoded.states[2].s + Len(encoded.states[2].p) = Len(encoded.dates)
  /\ Len(encoded.dates) > Len(encoded.states[2].p)

\* The positions of a series of len points the statement keeps for a step
statedIndices(len, step) ==
  {i \in 0..(len - 1) : i = 0 \/ i = len - 1 \/ i % step = 0}

\* The points of a series at a set of positions, in the order of the series
pointsAt(arr, S) ==
  [j \in 1..Cardinality(S) |-> arr[sortedDates(S)[j] + 1]]

\* The series the statement gives for a series, from its length and the
\* range of its pDem (units of 10^-4)
statedDownsample(arr) ==
  IF Len(arr) <= 2 THEN arr
  ELSE IF pDemRange(arr) < 200 THEN pointsAt(arr, statedIndices(Len(arr), 7))
  ELSE IF pDemRange(arr) < 500 THEN pointsAt(arr, statedIndices(Len(arr), 3))
  ELSE arr

C13_EmptySeriesEmptyResults ==
  (Len(gbSeries) = 0 /\ runKind \in {"series", "hybrid", "districts"}) =>
    /\ failure = "none"
    /\ simPc \in {"start", "done"}
    /\ results = <<>>
    /\ (runKind = "series" /\ simPc = "done") =>
         /\ DOMAIN perStateResults = DOMAIN DATA.ratios
         /\ \A j \in DOMAIN perStateResults : perStateResults[j] = <<>>
    /\ (runKind = "districts" /\ simPc = "done") =>
         perStateResults = <<>> /\ districtKeys = <<>>
    /\ compPc \in {"downsampled", "encoded"} =>
         /\ DOMAIN downsampled = DOMAIN perStateResults
         /\ \A k \in DOMAIN downsampled : downsampled[k] = <<>>
    /\ compPc = "encoded" =>
         /\ encoded.dates = <<>>
         /\ DOMAIN encoded.states = DOMAIN perStateResults
         /\ \A k \in DOMAIN encoded.states : encoded.states[k].p = <<>>

\* C13 witness: runOddsOverTimeState ran on an empty series for a chamber
\* that has keys, and its per-seat result went through both compaction
\* passes.
C13_Witness ==
  /\ Len(gbSeries) = 0 /\ runKind = "series"
  /\ Len(DATA.ratios) > 0
  /\ compPc = "encoded"
  /\ Len(encoded.states) = Len(DATA.ratios)
  /\ encoded.dates = <<>>

\* The dates of a series, in order
datesOf(series) == [e \in DOMAIN series |-> series[e].date]

\* C16: for a series of K dates every time-series function returns K
\* chamber points with the dates of the series in their order, and every
\* tracked seat (every key in runOddsOverTimeState, every competitive
\* district in computeHouseDistrictOddsOverTime) has one point per date of
\* the series, in that order.
C16_OnePointPerDate ==
  /\ (runKind \in {"series", "hybrid"} /\ simPc # "start") =>
       /\ Len(results) = day
       /\ simPc = "done" => datesOf(results) = datesOf(gbSeries)
  /\ (runKind = "series" /\ simPc # "start") =>
       /\ DOMAIN perStateResults = DOMAIN DATA.ratios
       /\ \A j \in DOMAIN perStateResults : Len(perStateResults[j]) = day
  /\ (runKind \in {"series", "districts"} /\ simPc = "done" /\ failure = "none") =>
       \A j \in DOMAIN perStateResults :
         datesOf(perStateResults[j]) = datesOf(gbSeries)

\* C16 witness: runOddsOverTimeState has returned for a series of at least
\* two dates and a chamber that has keys.
C16_Witness ==
  /\ runKind = "series" /\ simPc = "done"
  /\ Len(gbSeries) >= 2
  /\ Len(perStateResults) > 0
  /\ datesOf(results) = datesOf(gbSeries)
  /\ results[1].date # results[2].date

\* C17: the trial loop of runOddsOverTimeState does what the current-day
\* simulator of the chamber does: it simulates total - baseD - baseR seats,
\* the seat total of a trial is baseD plus the seats won, and the trial is
\* counted for D by the control test of the current-day simulator.
C17_SeriesTrialAsCurrent ==
  (runKind = "series" /\ simPc # "start") =>
    /\ Len(margins) = upSeatsOf(rules)
    /\ TrialEnded =>
         /\ dSeats >= rules.baseD
         /\ dSeats <= rules.baseD + Len(margins)
         /\ isDemCtrl = demControlCurrent(modeKey, dSeats)

\* C20: a trial of runOddsOverTimeHouse takes a grid index within the
\* swing grid, which runs from -7 to +7 in steps of 0.1; its seat total is
\* an integer from 0 to the total of the chamber, and it is counted for D
\* exactly when that total is at least majorityLine; a date counts NUM_SIMS
\* trials, so pDem lies in [0, 1] and expDem in [0, total].
C20_HybridTrialInRange ==
  runKind = "hybrid" =>
    /\ Len(swingGrid(swingRange)) = 141
    /\ \A j \in DOMAIN swingGrid(swingRange) :
         swingGrid(swingRange)[j] = Rat(j - 71, 10)
    /\ hyNo > 0 =>
         /\ hyJ \in 0..(Len(swingGrid(swingRange)) - 1)
         /\ hySeats \in 0..SEAT_RULES.house.total
         /\ hyWin <=> (hySeats >= SEAT_RULES.house.majorityLine)
    /\ simPc \in {"hyTrial", "hyDayEnd"} =>
         /\ hyNo <= NUM_SIMS
         /\ demControl <= hyNo
         /\ sumDSeats <= hyNo * SEAT_RULES.house.total
    /\ simPc = "hyDayEnd" => hyNo = NUM_SIMS
    /\ \A e \in DOMAIN results :
         /\ results[e].pDem \in 0..10^4
         /\ results[e].expDem \in 0..(10 * SEAT_RULES.house.total)

\* C20 witness: a trial ended exactly at majorityLine and was counted for D,
\* with the first grid index.
C20_Witness ==
  /\ runKind = "hybrid" /\ hyNo > 0
  /\ hySeats = SEAT_RULES.house.majorityLine
  /\ hyWin
  /\ hyJ = 0
  /\ \E e \in DOMAIN results : results[e].pDem > 0

(* ------------------------------------------------------------------ *)
(* Specification of the simulators under a defective SEAT_RULES        *)
(* ------------------------------------------------------------------ *)

ConfigInit ==
  /\ cfgPc = "start"
  /\ cfgFn \in {"runGovernorSimulation", "runOddsOverTimeState"}
  /\ cfgKey \in ConfigKeys(cfgFn)
  /\ \E missing \in RuleFields \cup {"none"} :
       cfgRules = rulesEntry(cfgKey, missing)
  /\ ConfigBlank
  /\ ExceptConfigIdle

\* The statements before the trial loop: the reads of the fields of rules
\* and the allocation of margins.
ConfigSetup ==
  /\ cfgPc = "start"
  /\ IF cfgRules.k = "undef"
       THEN /\ cfgOutcome' = "TypeError"
            /\ cfgPc' = "done"
            /\ UNCHANGED cfgLen
       ELSE /\ cfgLen' = IF cfgFn = "runGovernorSimulation"
                           THEN typedArrayLength(upSeatsJs(cfgRules))
                           ELSE upSeatsOf(SEAT_RULES[cfgKey])
            /\ cfgPc' = "trial"
            /\ UNCHANGED cfgOutcome
  /\ UNCHANGED <<cfgFn, cfgKey, cfgRules, cfgS, cfgDSeats, cfgDemControl,
                 cfgSum>>
  /\ UNCHANGED exceptConfigVars

\* A trial of runGovernorSimulation.
ConfigTrialCurrent ==
  /\ cfgPc = "trial" /\ cfgFn = "runGovernorSimulation" /\ cfgS < NUM_SIMS
  /\ \E dWins \in WinCounts(Min2(cfgLen, loopCount(upSeatsJs(cfgRules)))) :
       /\ cfgDSeats' = dSeatsCurrent(cfgRules, dWins)
       /\ cfgSum' = JAdd(cfgSum, Num(toInt16(dSeatsCurrent(cfgRules, dWins))))
       /\ cfgDemControl' =
            IF isDemCtrlCurrent(cfgRules, dSeatsCurrent(cfgRules, dWins))
              THEN cfgDemControl + 1 ELSE cfgDemControl
  /\ cfgS' = cfgS + 1
  /\ UNCHANGED <<cfgPc, cfgFn, cfgKey, cfgRules, cfgLen, cfgOutcome>>
  /\ UNCHANGED exceptConfigVars

\* A trial of runOddsOverTimeState.
ConfigTrialSeries ==
  /\ cfgPc = "trial" /\ cfgFn = "runOddsOverTimeState" /\ cfgS < NUM_SIMS
  /\ \E dWins \in WinCounts(cfgLen) :
       /\ cfgDSeats' = dSeatsSeries(cfgRules, dWins)
       /\ cfgSum' = JAdd(cfgSum, dSeatsSeries(cfgRules, dWins))
       /\ cfgDemControl' =
            IF isDemCtrlSeries(cfgKey, cfgRules, dSeatsSeries(cfgRules, dWins))
              THEN cfgDemControl + 1 ELSE cfgDemControl
  /\ cfgS' = cfgS + 1
  /\ UNCHANGED <<cfgPc, cfgFn, cfgKey, cfgRules, cfgLen, cfgOutcome>>
  /\ UNCHANGED exceptConfigVars

\* The return of the result after the last trial.
ConfigReturn ==
  /\ cfgPc = "trial" /\ cfgS = NUM_SIMS
  /\ cfgOutcome' = "returned"
  /\ cfgPc' = "done"
  /\ UNCHANGED <<cfgFn, cfgKey, cfgRules, cfgLen, cfgS, cfgDSeats,
                 cfgDemControl, cfgSum>>
  /\ UNCHANGED exceptConfigVars

ConfigNext ==
  ConfigSetup \/ ConfigTrialCurrent \/ ConfigTrialSeries \/ ConfigReturn

SpecConfig == ConfigInit /\ [][ConfigNext]_vars

\* C14: a simulator returns a result only when SEAT_RULES has an entry for
\* its chamber key and the entry has total, baseD, baseR and majorityLine;
\* otherwise it ends with an error.
C14_InvalidConfigAborts ==
  cfgOutcome = "returned" =>
    /\ cfgRules.k # "undef"
    /\ \A f \in RuleFields : cfgRules[f].k # "undef"

\* What a step may write of the table and of the inputs.
FrameStep ==
  /\ winpTable' # winpTable => simPc = "boot"
  /\ simPc \notin {"boot", "load"} =>
       UNCHANGED <<DATA, STATE_POLL_DATA, gbSeries>>
  /\ compPc # "idle" => UNCHANGED stateOddsMap

\* C15: WINP_PD_TABLE is written only by the loop that builds it at start-up;
\* once the inputs are loaded, no step of a simulator, of a time-series
\* function or of the compaction changes the table, DATA, STATE_POLL_DATA or
\* gbSeries, and the compaction leaves its argument stateOddsMap as it was.
C15_InputsReadOnly == [][FrameStep]_vars

\* C15 witness: the compaction has run on the result of a time series of
\* at least one date, with the table built.
C15_Witness ==
  /\ compPc = "encoded"
  /\ winpTable # newTable
  /\ Len(gbSeries) > 0
  /\ \E key \in DOMAIN stateOddsMap : Len(stateOddsMap[key]) > 0
  /\ downsampled # <<>>

(* ------------------------------------------------------------------ *)
(* Specification of the poll signal of the time series                 *)
(* ------------------------------------------------------------------ *)

\* The state after loadEntriesCSV and loadStatePollsByDate.
PollInit ==
  /\ pollPc = "load"
  /\ \E n \in 0..MaxPolls : seatPolls \in SortedPolls(n)
  /\ dataPoll \in {null, Pair(Num(48), Num(46))}
  /\ pollDay = 0
  /\ pollSignal = <<>>
  /\ ExceptPollIdle

\* applyLatestStatePollsToData, for the seat
ApplyLatestStatePolls ==
  /\ pollPc = "load"
  /\ dataPoll' = IF Len(seatPolls) = 0 THEN dataPoll
                 ELSE latestStatePoll(seatPolls)
  /\ pollPc' = "days"
  /\ UNCHANGED <<seatPolls, pollDay, pollSignal>>
  /\ UNCHANGED exceptPollVars

\* The poll selection of a day of runOddsOverTimeState, for the seat; the
\* day with index pollDay is dated pollDay.
PollSelectDay ==
  /\ pollPc = "days" /\ pollDay < LastPollDate
  /\ pollSignal' = Append(pollSignal, pollPairOfDay(seatPolls, dataPoll, pollDay))
  /\ pollDay' = pollDay + 1
  /\ UNCHANGED <<pollPc, seatPolls, dataPoll>>
  /\ UNCHANGED exceptPollVars

\* The end of the loop over the days.
PollDaysEnd ==
  /\ pollPc = "days" /\ pollDay = LastPollDate
  /\ pollPc' = "done"
  /\ UNCHANGED <<seatPolls, dataPoll, pollDay, pollSignal>>
  /\ UNCHANGED exceptPollVars

PollNext == ApplyLatestStatePolls \/ PollSelectDay \/ PollDaysEnd

SpecPoll == PollInit /\ [][PollNext]_vars

\* The polls of the list dated dt or earlier, in the order of the list.
pollsUpTo(polls, dt) == SelectSeq(polls, LAMBDA p : p.date <= dt)

\* The sum of a field over the last cnt entries of a list.
RECURSIVE lastSum(_, _, _)
lastSum(polls, field, cnt) ==
  IF cnt = 0 THEN Num(0)
  ELSE JAdd(lastSum(SubSeq(polls, 1, Len(polls) - 1), field, cnt - 1),
            polls[Len(polls)][field])

\* The mean of a field over the most recent min(W, k) of the k polls dated
\* dt or earlier.
recentMean(polls, field, dt) ==
  JDiv(lastSum(pollsUpTo(polls, dt), field,
               Min2(STATE_POLL_WINDOW, Len(pollsUpTo(polls, dt)))),
       Num(Min2(STATE_POLL_WINDOW, Len(pollsUpTo(polls, dt)))))

\* C18: the poll signal of the seat on the day dated d is the pair of the
\* means of the most recent min(W, k) polls dated d or earlier, and there
\* is none when no poll is dated d or earlier.
C18_PollSignalAsOfDate ==
  \A e \in DOMAIN pollSignal :
    pollSignal[e] =
      IF Len(pollsUpTo(seatPolls, e - 1)) = 0 THEN null
      ELSE normalizePair(recentMean(seatPolls, "D", e - 1),
                         recentMean(seatPolls, "R", e - 1))

(* ------------------------------------------------------------------ *)
(* Specification of calcLastNPollsSeries                               *)
(* ------------------------------------------------------------------ *)

GbInit ==
  /\ gbPc = "start"
  /\ gapDay \in {NoGap} \cup 1..LastGbDate
  /\ \E n \in 0..MaxGbPolls, bad \in 0..1 :
       \E dates \in [1..n -> 0..LastGbDate] :
         gbPolls = [j \in 1..n |-> gbPollNo(j, dates[j], j # bad, gapDay)]
  /\ gbN \in 1..MaxWindow
  /\ gbToday \in 0..(LastGbDate + 1)
  /\ GbBlank
  /\ ExceptGbIdle

\* The statements before the loop over the days.
GbSetup ==
  /\ gbPc = "start"
  /\ \E sorted \in {sortByDate(validPolls(gbPolls))} :
       /\ gbSorted' = sorted
       /\ IF Len(sorted) = 0
            THEN /\ gbPc' = "done"
                 /\ UNCHANGED <<gbT1, gbDay>>
            ELSE /\ gbPc' = "loop"
                 /\ gbDay' = sorted[1].date
                 /\ gbT1' = lastDayOf(midnightOf(gbToday, gapDay),
                                      sorted[Len(sorted)].date)
  /\ UNCHANGED <<gapDay, gbPolls, gbN, gbToday, gbHi, gbHiBefore, gbOut>>
  /\ UNCHANGED exceptGbVars

\* An iteration of the loop over the days.
GbDayStep ==
  /\ gbPc = "loop" /\ dateLe(gbDay, gbT1)
  /\ gbHiBefore' = gbHi
  /\ gbHi' = scanHi(gbSorted, gbHi, gbDay)
  /\ gbOut' = gbOut \o gbEntry(gbSorted, scanHi(gbSorted, gbHi, gbDay), gbN,
                              gbDay)
  /\ gbDay' = setDateNext(gbDay, gapDay)
  /\ UNCHANGED <<gbPc, gapDay, gbPolls, gbN, gbToday, gbSorted, gbT1>>
  /\ UNCHANGED exceptGbVars

\* The end of the loop and the return of out.
GbReturn ==
  /\ gbPc = "loop" /\ ~dateLe(gbDay, gbT1)
  /\ gbPc' = "done"
  /\ UNCHANGED <<gapDay, gbPolls, gbN, gbToday, gbSorted, gbT1, gbDay, gbHi,
                 gbHiBefore, gbOut>>
  /\ UNCHANGED exceptGbVars

GbNext == GbSetup \/ GbDayStep \/ GbReturn

SpecGb == GbInit /\ [][GbNext]_vars

\* The number of polls of a list on the calendar day s or earlier.
pollsOnOrBefore(list, s) ==
  Cardinality({j \in DOMAIN list : list[j].date.day <= s})

\* The arithmetic mean of a field over the cnt polls of a list that end
\* with the poll hi.
windowMean(list, field, hi, cnt) ==
  JDiv(lastSum(SubSeq(list, 1, hi), field, cnt), Num(cnt))

\* The later of two calendar days.
laterDay(a, b) == IF a > b THEN a ELSE b

\* C19: the series has one entry for every calendar day from the day of
\* the first poll on, in order, up to the later of today and the day of the
\* last poll; the entry of day d counts min(N, number of polls dated d or
\* earlier) polls and holds the arithmetic means of those most recent
\* polls; hi never decreases.
C19_DailyLastNMeans ==
  /\ gbHiBefore <= gbHi
  /\ \A e \in DOMAIN gbOut :
       /\ gbOut[e].date = gbSorted[1].date.day + e - 1
       /\ gbOut[e].count =
            Min2(gbN, pollsOnOrBefore(gbSorted, gbOut[e].date))
       /\ gbOut[e].dem =
            windowMean(gbSorted, "dem",
                       pollsOnOrBefore(gbSorted, gbOut[e].date), gbOut[e].count)
       /\ gbOut[e].rep =
            windowMean(gbSorted, "rep",
                       pollsOnOrBefore(gbSorted, gbOut[e].date), gbOut[e].count)
  /\ (gbPc = "done" /\ Len(gbSorted) > 0) =>
       Len(gbOut) = laterDay(gbToday, gbSorted[Len(gbSorted)].date.day)
                    - gbSorted[1].date.day + 1
  /\ (gbPc = "done" /\ Len(gbSorted) = 0) => gbOut = <<>>

(* ------------------------------------------------------------------ *)
(* Specification of the tracked house districts                        *)
(* ------------------------------------------------------------------ *)

MaxDistDays == 4

MaxDistricts == 2

\* The generic ballot of a day: D far behind, level, far ahead
GbLevels == {25, 50, 75}

\* A generic-ballot series of the given length, dates as day numbers
gbSeriesFrom(dems) ==
  [e \in DOMAIN dems |->
     [date |-> e - 1, dem |-> Num(dems[e]), rep |-> Num(100 - dems[e])]]

\* The state when main calls computeHouseDistrictOddsOverTime(gbSeries).
DistInit ==
  /\ distPc = "call"
  /\ \E n \in 0..MaxDistricts :
       \E ratios \in [1..n -> {LeanD, Even, LeanR}] :
         houseData = [ratios |-> ratios]
  /\ \E len \in 0..MaxDistDays :
       \E dems \in [1..len -> GbLevels] : distSeries = gbSeriesFrom(dems)
  /\ distResult = [failure |-> "none", keys |-> <<>>, odds |-> <<>>]
  /\ ExceptDistIdle

\* computeHouseDistrictOddsOverTime(gbSeries)
ComputeHouseDistrictOdds ==
  /\ distPc = "call"
  /\ distResult' = districtOdds(houseData, distSeries)
  /\ distPc' = "done"
  /\ UNCHANGED <<houseData, distSeries>>
  /\ UNCHANGED exceptDistVars

DistNext == ComputeHouseDistrictOdds

SpecDist == DistInit /\ [][DistNext]_vars

\* The dates of the series on which a district is competitive
competitiveDays(series, ratio) ==
  {d \in 0..(Len(series) - 1) : isCompetitive(districtMargin(series, d, ratio))}

\* C21: a district that is competitive (absolute projected margin below
\* 15) on any date of the generic-ballot series is a key of the map
\* computeHouseDistrictOddsOverTime returns.
C21_CompetitiveAnyDateTracked ==
  distPc = "done" =>
    \A k \in DOMAIN houseData.ratios :
      competitiveDays(distSeries, houseData.ratios[k]) # {}
        => \E c \in DOMAIN distResult.keys : distResult.keys[c] = k
(* ------------------------------------------------------------------ *)
(* Specification of the history of daily snapshots                     *)
(*                                                                     *)
(* A snapshot is [date, run]: run is the number of the run of main     *)
(* that built it (its timestamp and results), 0 for a snapshot the     *)
(* file had at the start.  Dates are day numbers from 1.               *)
(* ------------------------------------------------------------------ *)

MaxDate == 4

MaxRuns == 3

\* a.localeCompare(b) of two ISO date strings
localeCompare(a, b) == IF a < b THEN -1 ELSE IF a > b THEN 1 ELSE 0

\* A comparator that never orders two snapshots
compareNothing(a, b) == 0

\* (a, b) => a.date.localeCompare(b.date)
compareByDate(a, b) == localeCompare(a.date, b.date)

\* Array.prototype.sort with the comparator, which is stable: h put into a
\* sorted list behind the entries that do not compare above it
RECURSIVE insertSnapshot(_, _)
insertSnapshot(sorted, h) ==
  IF Len(sorted) = 0 THEN <<h>>
  ELSE IF compareByDate(sorted[Len(sorted)], h) <= 0 THEN Append(sorted, h)
  ELSE Append(insertSnapshot(SubSeq(sorted, 1, Len(sorted) - 1), h),
              sorted[Len(sorted)])

RECURSIVE sortHistory(_)
sortHistory(history) ==
  IF Len(history) = 0 THEN <<>>
  ELSE insertSnapshot(sortHistory(SubSeq(history, 1, Len(history) - 1)),
                      history[Len(history)])

\* existing.history after the file was loaded
loadedHistory(file) ==
  IF file.kind = "json" /\ file.hasHistory THEN file.history ELSE <<>>

\* existing.history.findIndex(h => h.date === today), counted from 1; 0
\* for -1
findIndexOf(history, today) ==
  IF \E e \in DOMAIN history : history[e].date = today
  THEN MinOf({e \in DOMAIN history : history[e].date = today})
  ELSE 0

\* The history with the snapshot put in place of today's or pushed
withSnapshot(history, snapshot) ==
  IF findIndexOf(history, snapshot.date) > 0
  THEN [history EXCEPT ![findIndexOf(history, snapshot.date)] = snapshot]
  ELSE Append(history, snapshot)

\* The histories a file can hold: at most one snapshot per date, in any
\* order
DistinctHistories ==
  {h \in UNION {[1..n -> [date : 1..MaxDate, run : {0}]] : n \in 0..MaxDate} :
     \A i, j \in DOMAIN h : i # j => h[i].date # h[j].date}

\* The results file before the first run
HistInit ==
  /\ \/ resultsFile = NoFile
     \/ resultsFile = [kind |-> "corrupt", hasHistory |-> FALSE, history |-> <<>>]
     \/ resultsFile = [kind |-> "json", hasHistory |-> FALSE, history |-> <<>>]
     \/ \E h \in DistinctHistories :
          resultsFile = [kind |-> "json", hasHistory |-> TRUE, history |-> h]
  /\ histToday = 0
  /\ histRuns = 0
  /\ ExceptHistIdle

\* main, on the day today: the history is loaded, today's snapshot put in,
\* the history sorted and the file written
MainHistory ==
  /\ histRuns < MaxRuns
  /\ \E today \in 1..MaxDate :
       /\ histToday' = today
       /\ resultsFile' =
            [kind |-> "json", hasHistory |-> TRUE,
             history |-> sortHistory(withSnapshot(
                           loadedHistory(resultsFile),
                           [date |-> today, run |-> histRuns + 1]))]
  /\ histRuns' = histRuns + 1
  /\ UNCHANGED exceptHistVars

HistNext == MainHistory

SpecHist == HistInit /\ [][HistNext]_vars

\* The snapshots of a history dated d
snapshotsOf(history, d) == {history[e] : e \in DOMAIN history}
                             \cap [date : {d}, run : 0..MaxRuns]

\* A history has at most one snapshot per date.
onePerDate(history) ==
  \A i, j \in DOMAIN history : i # j => history[i].date # history[j].date

\* What a run of main has made of a history in which no date is repeated
runUpdates(before, after, today, run) ==
  /\ snapshotsOf(after, today) = {[date |-> today, run |-> run]}
  /\ \A d \in 1..MaxDate :
       d # today => snapshotsOf(after, d) = snapshotsOf(before, d)
  /\ Len(after) = IF snapshotsOf(before, today) = {} THEN Len(before) + 1
                  ELSE Len(before)
  /\ onePerDate(after)
  /\ \A i, j \in DOMAIN after : i < j => after[i].date < after[j].date

\* C24: a run of main on a results file whose history has at most one
\* snapshot per date leaves a history with exactly one snapshot for today,
\* the one the run built (replacing today's, otherwise added), with the
\* snapshots of the other dates as they were, at most one snapshot per
\* date, ascending by date.
C24_HistoryOnePerRunDate ==
  [][(resultsFile.kind = "json" /\ resultsFile.hasHistory
        /\ onePerDate(resultsFile.history))
       => runUpdates(resultsFile.history, resultsFile'.history,
                     histToday', histRuns')]_vars

\* C24 witness: after three runs the history has three snapshots, one of
\* the file, one of the first run and, in the place of the second run's,
\* the one of the third run.
C24_Witness ==
  /\ histRuns = 3
  /\ Len(resultsFile.history) = 3
  /\ \E e \in DOMAIN resultsFile.history :
       resultsFile.history[e] = [date |-> histToday, run |-> 3]
  /\ \E e \in DOMAIN resultsFile.history : resultsFile.history[e].run = 0
  /\ \E e \in DOMAIN resultsFile.history : resultsFile.history[e].run = 1
(* ------------------------------------------------------------------ *)
(* Specification of fetchJson                                          *)
(*                                                                     *)
(* What a request meets: "json" (an OK response with a JSON body),     *)
(* "text" (an OK response whose body is not JSON), "r429", "r5xx",     *)
(* "r4xx" (a status that is not OK, 429 or 5xx), "network" (fetch or   *)
(* res.text() rejects).  An Error is [kind, attempt]: attempt is the   *)
(* attempt that built it.                                              *)
(* ------------------------------------------------------------------ *)

MAX_RETRIES == 4

Responses == {"json", "text", "r429", "r5xx", "r4xx", "network"}

\* The Error an attempt builds for what it met
errorOf(resp, n) ==
  [kind |-> IF resp \in {"r5xx", "r4xx"} THEN "http"
            ELSE IF resp = "text" THEN "nonjson" ELSE "network",
   attempt |-> n]

\* lastErr after an attempt: 429 leaves it; every Error, thrown inside the
\* try or not, is assigned to it (line 86 or the catch clause, line 98)
lastErrAfter(err, resp, n) ==
  IF resp \in {"r429", "json"} THEN err ELSE errorOf(resp, n)

\* The call fetchJson(url)
FetchInit ==
  /\ fjPc = "loop"
  /\ attempt = 1
  /\ lastErr = NoError
  /\ responses = <<>>
  /\ fjThrown = NoError
  /\ ExceptFetchIdle

\* One iteration of the loop: the request, the tests of the response and
\* the catch clause.  Only JSON.parse of an OK response returns; whatever
\* is thrown inside the try is caught and the loop goes on.
FetchAttempt ==
  /\ fjPc = "loop" /\ attempt <= MAX_RETRIES
  /\ \E resp \in Responses :
       /\ responses' = Append(responses, resp)
       /\ lastErr' = lastErrAfter(lastErr, resp, attempt)
       /\ IF resp = "json"
          THEN fjPc' = "returned" /\ attempt' = attempt
          ELSE fjPc' = "loop" /\ attempt' = attempt + 1
  /\ UNCHANGED fjThrown
  /\ UNCHANGED exceptFetchVars

\* throw lastErr, after the loop
FetchThrowLast ==
  /\ fjPc = "loop" /\ attempt > MAX_RETRIES
  /\ fjThrown' = lastErr
  /\ fjPc' = "thrown"
  /\ UNCHANGED <<attempt, lastErr, responses>>
  /\ UNCHANGED exceptFetchVars

FetchNext == FetchAttempt \/ FetchThrowLast

SpecFetch == FetchInit /\ [][FetchNext]_vars

\* C26: a call of fetchJson makes at most MAX_RETRIES requests; it ends by
\* returning the JSON of an OK response or by throwing an Error, not null,
\* built for what the last request met; a status that is not OK, 429 or
\* 5xx is followed by no further request.
C26_FetchJsonOutcome ==
  /\ Len(responses) <= MAX_RETRIES
  /\ fjPc = "returned" => responses[Len(responses)] = "json"
  /\ fjPc = "thrown" =>
       /\ fjThrown # NoError
       /\ fjThrown.attempt = Len(responses)
  /\ \A e \in DOMAIN responses : responses[e] = "r4xx" => e = Len(responses)
(* ------------------------------------------------------------------ *)
(* Specification of fetchRangeRobust                                   *)
(*                                                                     *)
(* Dates are day numbers.  new Date("YYYY-MM-DD") is the UTC midnight  *)
(* of the day; addDays adds days of the local calendar (setDate,       *)
(* getDate) and isoDate takes the UTC date (toISOString).  In a zone   *)
(* whose clocks go forward, the local day added across the change ends *)
(* an hour before the UTC midnight, on the UTC date before.  The       *)
(* recursion is a stack of the calls still to be made: a call that     *)
(* splits is replaced by its left and its right call.                  *)
(* ------------------------------------------------------------------ *)

MaxSpan == 4

MaxFailed == 8

\* daysBetween(a, b) of two date strings
daysBetween(a, b) == b - a

\* isoDate(addDays(new Date(d), n)), n >= 0
isoAddDays(d, n, spring) ==
  IF n > 0 /\ d <= spring /\ spring < d + n THEN d + n - 1 ELSE d + n

\* How fetchPollSlice ends: with a list, with the Error of an HTTP 5xx
\* status, with an Error whose text has neither "HTTP 5" nor "Internal
\* Server Error", or with an Error of another failure whose text has one
\* of them (the text holds the first 1200 characters of the body).
SliceOutcomes == {"ok", "http5xx", "other", "naming5xx"}

\* is5xx
is5xx(outcome) == outcome \in {"http5xx", "naming5xx"}

\* mid
midOf(r, spring) ==
  isoAddDays(r.from, ((daysBetween(r.from, r.to) + 1) \div 2) - 1, spring)

\* The two recursive calls of a range that is split
halvesOf(r, spring) ==
  <<[from |-> r.from, to |-> midOf(r, spring)],
    [from |-> isoAddDays(midOf(r, spring), 1, spring), to |-> r.to]>>

\* A call of fetchRangeRobust by run
RangeInit ==
  /\ frPc = "run"
  /\ springDay \in {NoSpring} \cup 1..MaxSpan
  /\ \E to \in 1..MaxSpan : frRange = [from |-> 1, to |-> to]
  /\ frStack = <<frRange>>
  /\ frSlices = <<>>
  /\ debug = NoDebug
  /\ frMet = {}
  /\ ExceptRangeIdle

\* The next call of fetchRangeRobust: the slice is fetched; a list is
\* returned; a failure that is not is5xx is rethrown, through every
\* caller; a one-day range is skipped; a longer one is split.
FetchRangeRobust ==
  /\ frPc = "run" /\ frStack # <<>>
  /\ \E outcome \in SliceOutcomes :
       LET r == Head(frStack)
           span == daysBetween(r.from, r.to) + 1
       IN  /\ outcome # "ok" => debug.failedSlices < MaxFailed
           /\ frMet' = IF outcome = "ok" THEN frMet ELSE frMet \cup {outcome}
           /\ IF outcome = "ok"
              THEN /\ debug' = [debug EXCEPT !.okSlices = @ + 1]
                   /\ frSlices' = Append(frSlices, r)
                   /\ frStack' = Tail(frStack)
              ELSE IF ~is5xx(outcome)
              THEN /\ UNCHANGED <<debug, frSlices, frStack>>
              ELSE IF span <= 1
              THEN /\ debug' = [debug EXCEPT !.failedSlices = @ + 1,
                                             !.skippedDays = Append(@, r.from)]
                   /\ frStack' = Tail(frStack)
                   /\ UNCHANGED frSlices
              ELSE /\ debug' = [debug EXCEPT !.failedSlices = @ + 1]
                   /\ frStack' = halvesOf(r, springDay) \o Tail(frStack)
                   /\ UNCHANGED frSlices
           /\ frPc' = IF outcome # "ok" /\ ~is5xx(outcome) THEN "thrown"
                      ELSE IF frStack' = <<>> THEN "done" ELSE "run"
  /\ UNCHANGED <<springDay, frRange>>
  /\ UNCHANGED exceptRangeVars

RangeNext == FetchRangeRobust

SpecRange == RangeInit /\ [][RangeNext]_vars

\* The number of ranges of a list that hold a day
RECURSIVE holders(_, _)
holders(ranges, d) ==
  IF ranges = <<>> THEN 0
  ELSE (IF ranges[1].from <= d /\ d <= ranges[1].to THEN 1 ELSE 0)
         + holders(Tail(ranges), d)

\* The number of times a day is in a list of days
RECURSIVE timesIn(_, _)
timesIn(days, d) ==
  IF days = <<>> THEN 0
  ELSE (IF days[1] = d THEN 1 ELSE 0) + timesIn(Tail(days), d)

\* C25: while the only failures are 5xx, the calls still to be made are
\* non-empty ranges which, with the slices fetched and the days skipped,
\* hold every day of the requested range exactly once (a failing range is
\* split into two halves that partition it, a failing day is skipped); the
\* slices are concatenated in the order of their dates; and any other
\* failure has been rethrown.
C25_RangeCoveredOnce ==
  /\ frPc \in {"run", "done"} /\ frMet \subseteq {"http5xx"} =>
       /\ \A e \in DOMAIN frStack : frStack[e].from <= frStack[e].to
       /\ \A d \in frRange.from..frRange.to :
            holders(frStack, d) + holders(frSlices, d)
              + timesIn(debug.skippedDays, d) = 1
       /\ \A i, j \in DOMAIN frSlices :
            i < j => frSlices[i].to < frSlices[j].from
  /\ frPc # "idle" /\ ~(frMet \subseteq {"http5xx"}) => frPc = "thrown"
\* C27: in every trial of a current-day simulator and of
\* runOddsOverTimeState, whatever the number of keys of the ratio table,
\* the D seat total lies between baseD and total - baseR; and the pDem and
\* pRep a current-day simulator reports sum to 1 (units of 10^-4).
C27_SeatTotalInRange ==
  /\ (runKind \in {"current", "series"} /\ TrialEnded) =>
       /\ dSeats >= rules.baseD
       /\ dSeats <= rules.total - rules.baseR
  /\ (runKind = "current" /\ simPc = "done") =>
       output.pDem + output.pRep = 10^4

====
